---- MODULE Spec2Model ----
(***************************************************************************)
(* Model of the invoice inspector: filename resolution and reconciliation  *)
(* (services/extraction_service.py, services/pipeline_service.py), the     *)
(* verification engine (services/master_data_service.py), the strict sheet *)
(* verifier (sheet_verifier/verifier.py, sheet_verifier/extractor.py) and  *)
(* the GUI's background run beside the master editor (ui/app_window.py,    *)
(* ui/components/master_editor.py).                                        *)
(*                                                                         *)
(* Numbers.  A numeric cell or master value is written in the file as a    *)
(* decimal with two places; the model carries it as the integer count of   *)
(* hundredths (10001 is 100.01).  Python turns that text into the nearest  *)
(* binary64 float, and the tolerance comparison is done on those floats;   *)
(* the operators below compute exactly that.                               *)
(***************************************************************************)
EXTENDS Integers, Sequences, FiniteSets, TLC

(***************************************************************************)
(* IEEE 754 binary64 arithmetic on the non-negative values the model uses  *)
(* (below 100000.00).  Every such float is an integer multiple of 2^-59,   *)
(* and a float is carried as that integer, written in limbs of 13 bits,    *)
(* least significant first (the empty sequence is 0.0).                    *)
(***************************************************************************)
MantBits == 53

FracBits == 52 + 7

LimbBits == 13

LimbBase == 2 ^ LimbBits

RECURSIVE ToLimbs(_)
ToLimbs(n) ==
    IF n = 0 THEN <<>> ELSE <<n % LimbBase>> \o ToLimbs(n \div LimbBase)

RECURSIVE Trim(_)
Trim(x) ==
    IF x = <<>> THEN x
    ELSE IF x[Len(x)] = 0 THEN Trim(SubSeq(x, 1, Len(x) - 1))
    ELSE x

RECURSIVE MulSmall(_, _, _)
MulSmall(x, k, carry) ==
    \* x * k + carry, k < 2^17
    IF x = <<>> THEN ToLimbs(carry)
    ELSE <<(Head(x) * k + carry) % LimbBase>>
         \o MulSmall(Tail(x), k, (Head(x) * k + carry) \div LimbBase)

RECURSIVE DivSmall(_, _)
DivSmall(x, d) ==
    \* quotient and remainder of x by d, d <= 2^17
    IF x = <<>> THEN [q |-> <<>>, r |-> 0]
    ELSE LET up == DivSmall(Tail(x), d)
         IN [q |-> <<(up.r * LimbBase + Head(x)) \div d>> \o up.q,
             r |-> (up.r * LimbBase + Head(x)) % d]

RECURSIVE BigSub(_, _, _)
BigSub(x, y, borrow) ==
    \* x - y - borrow, for x >= y + borrow
    IF x = <<>> THEN <<>>
    ELSE LET yi == IF y = <<>> THEN 0 ELSE Head(y)
             yt == IF y = <<>> THEN <<>> ELSE Tail(y)
         IN <<(Head(x) - yi - borrow + LimbBase) % LimbBase>>
            \o BigSub(Tail(x), yt, IF Head(x) - yi - borrow < 0 THEN 1 ELSE 0)

BigLess(x, y) ==
    \* x < y, both without leading zero limbs
    IF Len(x) # Len(y) THEN Len(x) < Len(y)
    ELSE \E i \in 1..Len(x) :
            /\ x[i] < y[i]
            /\ \A j \in (i + 1)..Len(x) : x[j] = y[j]

RECURSIVE ZeroLimbs(_)
ZeroLimbs(k) == IF k <= 0 THEN <<>> ELSE <<0>> \o ZeroLimbs(k - 1)

ShiftLeft(x, s) ==
    IF x = <<>> THEN x
    ELSE ZeroLimbs(s \div LimbBits) \o MulSmall(x, 2 ^ (s % LimbBits), 0)

IntBitLen(n) == IF n = 0 THEN 0 ELSE CHOOSE k \in 1..31 : 2 ^ (k - 1) <= n /\ n \div 2 < 2 ^ (k - 1)

BitLen(x) ==
    IF x = <<>> THEN 0 ELSE LimbBits * (Len(x) - 1) + IntBitLen(x[Len(x)])

RoundHalfEven(q, r, d) ==
    \* q + r/d rounded to the nearest integer, ties to the even one
    IF 2 * r > d \/ (2 * r = d /\ q # <<>> /\ q[1] % 2 = 1)
    THEN Trim(MulSmall(q, 1, 1))
    ELSE q

Round53(x) ==
    \* x rounded to 53 significant bits (round to nearest, ties to even)
    IF BitLen(x) <= MantBits THEN x
    ELSE LET k == BitLen(x) - MantBits
             d == DivSmall(x, 2 ^ k)
         IN ShiftLeft(RoundHalfEven(Trim(d.q), d.r, 2 ^ k), k)

ParseFloat(n) ==
    \* float("<n/100>"): the binary64 nearest to the decimal n hundredths
    IF n = 0 THEN <<>>
    ELSE LET k == IntBitLen((n * 2 ^ 7) \div 100) - 1
             d == DivSmall(ShiftLeft(ToLimbs(n), FracBits - k), 100)
         IN ShiftLeft(RoundHalfEven(Trim(d.q), d.r, 100), k)

FSubAbs(x, y) ==
    \* abs(x - y) as the float subtraction yields it
    IF BigLess(x, y) THEN Round53(Trim(BigSub(y, x, 0)))
    ELSE Round53(Trim(BigSub(x, y, 0)))

FGreater(x, y) == BigLess(y, x)

(***************************************************************************)
(* Text.  A file name, an identifier or a sheet title is a sequence of     *)
(* one-character strings.                                                  *)
(***************************************************************************)
LowerLetters == <<"a", "b", "c", "d", "e", "f", "g", "h", "i", "j", "k", "l", "m", "n", "o", "p", "q", "r", "s", "t", "u", "v", "w", "x", "y", "z">>

UpperLetters == <<"A", "B", "C", "D", "E", "F", "G", "H", "I", "J", "K", "L", "M", "N", "O", "P", "Q", "R", "S", "T", "U", "V", "W", "X", "Y", "Z">>

Digits == {"0", "1", "2", "3", "4", "5", "6", "7", "8", "9"}

SeqRange(s) == {s[i] : i \in 1..Len(s)}

IsLetter(c) == c \in SeqRange(LowerLetters) \cup SeqRange(UpperLetters)

IsDigit(c) == c \in Digits

IsSep(c) == c \in {"-", "_"}

UpperChar(c) ==
    IF \E i \in 1..Len(LowerLetters) : LowerLetters[i] = c
    THEN UpperLetters[CHOOSE i \in 1..Len(LowerLetters) : LowerLetters[i] = c]
    ELSE c

LowerChar(c) ==
    IF \E i \in 1..Len(UpperLetters) : UpperLetters[i] = c
    THEN LowerLetters[CHOOSE i \in 1..Len(UpperLetters) : UpperLetters[i] = c]
    ELSE c

Upper(s) == [i \in 1..Len(s) |-> UpperChar(s[i])]

Lower(s) == [i \in 1..Len(s) |-> LowerChar(s[i])]

Contains(hay, needle) ==
    \* Python's  needle in hay
    \E i \in 1..(Len(hay) - Len(needle) + 1) :
        SubSeq(hay, i, i + Len(needle) - 1) = needle

StartsWith(s, prefix) ==
    Len(prefix) <= Len(s) /\ SubSeq(s, 1, Len(prefix)) = prefix

RunEnd(s, i, Class(_)) ==
    \* the last index of the longest run of Class characters starting at i,
    \* or i - 1 when s[i] is no such character
    IF \E j \in i..Len(s) : ~Class(s[j])
    THEN (CHOOSE j \in i..Len(s) :
             ~Class(s[j]) /\ \A k \in i..(j - 1) : Class(s[k])) - 1
    ELSE Len(s)

(***************************************************************************)
(* FilenameResolver: services/extraction_service.py parse_filename.        *)
(***************************************************************************)
TailMatch(s, i) ==
    \* [-_]?\d+[A-Z]*  from index i: the index of the last character
    \* matched, 0 when there is no match
    LET d0 == IF i <= Len(s) /\ IsSep(s[i]) /\ i + 1 <= Len(s) /\ IsDigit(s[i + 1])
              THEN i + 1 ELSE i
    IN IF d0 <= Len(s) /\ IsDigit(s[d0])
       THEN RunEnd(s, RunEnd(s, d0, IsDigit) + 1, IsLetter)
       ELSE 0

MatchAt(s, i) ==
    \* ((?:[A-Z]+[-_])?[A-Z]+[-_]?\d+[A-Z]*) tried at index i, ignoring case:
    \* the index of the last character matched, 0 when there is no match
    IF i > Len(s) \/ ~IsLetter(s[i]) THEN 0
    ELSE LET r1 == RunEnd(s, i, IsLetter)
             r2 == IF r1 + 2 <= Len(s) /\ IsSep(s[r1 + 1]) /\ IsLetter(s[r1 + 2])
                   THEN RunEnd(s, r1 + 2, IsLetter) ELSE 0
             viaGroup == IF r2 = 0 THEN 0 ELSE TailMatch(s, r2 + 1)
         IN IF viaGroup # 0 THEN viaGroup ELSE TailMatch(s, r1 + 1)

RECURSIVE FindAll(_, _)
FindAll(s, i) ==
    \* re.findall: the matches from left to right, without overlap
    IF i > Len(s) THEN <<>>
    ELSE IF MatchAt(s, i) = 0 THEN FindAll(s, i + 1)
    ELSE <<SubSeq(s, i, MatchAt(s, i))>> \o FindAll(s, MatchAt(s, i) + 1)

noise_prefixes ==
    {<<"C", "O", "P", "Y">>,
     <<"X", "L", "S">>,
     <<"V">>,
     <<"P", "A", "R", "T">>,
     <<"R", "E", "V">>,
     <<"V", "A", "L">>,
     <<"N", "U", "M">>,
     <<"N", "O">>}

LeadingLetters(c) == SubSeq(c, 1, RunEnd(c, 1, IsLetter))

RECURSIVE ValidCandidates(_)
ValidCandidates(cands) ==
    IF cands = <<>> THEN <<>>
    ELSE IF LeadingLetters(Upper(Head(cands))) \in noise_prefixes
    THEN ValidCandidates(Tail(cands))
    ELSE <<Upper(Head(cands))>> \o ValidCandidates(Tail(cands))

NoId == <<>>

FirstCandidate(cs) ==
    \* seeded fault: the first candidate, whatever its length
    cs[1]

MaxByLen(cs) ==
    \* max(cs, key=len): the first of the longest
    cs[CHOOSE i \in 1..Len(cs) :
          /\ \A j \in 1..Len(cs) : Len(cs[j]) <= Len(cs[i])
          /\ \A j \in 1..(i - 1) : Len(cs[j]) < Len(cs[i])]

RegexFallback(name) ==
    IF ValidCandidates(FindAll(name, 1)) = <<>> THEN NoId
    ELSE MaxByLen(ValidCandidates(FindAll(name, 1)))

LongestKnown(name, known_ids) ==
    \* the known identifiers contained in the name that sorted(key=len,
    \* reverse=True) can put first: the order among equally long ones is
    \* the set's iteration order
    {k \in known_ids : Contains(name, k)
                       /\ \A o \in known_ids : Contains(name, o) => Len(o) <= Len(k)}

parse_filename(name, known_ids) ==
    \* the set of identifiers the call can return (NoId for None)
    IF LongestKnown(name, known_ids) # {} THEN LongestKnown(name, known_ids)
    ELSE {RegexFallback(name)}

(***************************************************************************)
(* Values.  A dictionary value or a master cell is a number of hundredths  *)
(* (0 and up) or one of four markers: the key is not in the dictionary,    *)
(* Python's None (also an empty or NaN master cell), the string "N/A", or  *)
(* some other text without digits.                                         *)
(***************************************************************************)
Absent == -4

None == -1

NA == -2

Text == -3

checks ==
    <<"col_qty_sf", "col_amount", "col_pallet_count",
      "col_qty_pcs", "col_net", "col_gross", "col_cbm">>

Keys == SeqRange(checks)

sheet_names == <<"Invoice", "PackingList", "Contract">>

NoValues == [k \in Keys |-> Absent]

EmptySheet == [vals |-> NoValues, det |-> "absent", header_row |-> 0]

DictGet(d, key) ==
    \* d.get(key)
    IF d[key] = Absent THEN None ELSE d[key]

get_num(v) ==
    \* None for None, NaN and text without a number, the float otherwise
    IF v \in {Absent, None, NA, Text} THEN None ELSE v

ExceedsTolerance(a, b) ==
    \* abs(a - b) > 0.01 on the floats of a and b hundredths
    FGreater(FSubAbs(ParseFloat(a), ParseFloat(b)), ParseFloat(1))

(***************************************************************************)
(* VerificationEngine: MasterDataService.verify_and_update.  The master    *)
(* table is [cols, rows]: cols is the set of check keys col_map maps to a  *)
(* master column, a row is [id, exp, verify, diff] where verify and diff   *)
(* cells are <<>> (empty) or <<value>>.                                    *)
(***************************************************************************)
MasterValue(row, cols, key) ==
    IF key \in cols THEN get_num(row.exp[key]) ELSE None

SheetMismatch(item, row, cols, key, sheet) ==
    \* the per-sheet comparison of one mapped key flags a mismatch
    LET sheet_value == get_num(DictGet(item.sheets[sheet].vals, key))
        master_value == get_num(row.exp[key])
    IN /\ key \in cols
       /\ item.sheets[sheet].vals[key] # Absent
       /\ sheet_value # None
       /\ sheet_value # 0
       /\ IF master_value = None
          THEN FGreater(ParseFloat(sheet_value), ParseFloat(100))
          ELSE ExceedsTolerance(sheet_value, master_value)

all_match(item, row, cols) ==
    \A k \in 1..Len(checks) : \A s \in 1..Len(sheet_names) :
        ~SheetMismatch(item, row, cols, checks[k], sheet_names[s])

DiffValueAccumulating(item, row, key) ==
    \* seeded fault: the new DIFF value is added to the one the row holds
    (IF row.diff[key] = <<>> THEN 0 ELSE row.diff[key][1])
    + (IF get_num(DictGet(item.flat, key)) = None THEN 0
       ELSE get_num(DictGet(item.flat, key)))
    - (IF get_num(row.exp[key]) = None THEN 0 ELSE get_num(row.exp[key]))

DiffValue(item, row, key) ==
    \* round(flattened value - master value, 7), in hundredths
    LET extracted_value == get_num(DictGet(item.flat, key))
        master_value == get_num(row.exp[key])
    IN (IF extracted_value = None THEN 0 ELSE extracted_value)
       - (IF master_value = None THEN 0 ELSE master_value)

HeaderInfo(sheet_data) ==
    IF sheet_data.det = "ok" THEN "Row"
    ELSE IF sheet_data.det # "absent" THEN "WARNING"
    ELSE IF sheet_data = EmptySheet THEN "Not Found"
    ELSE ""

Line(kind, sheet, key, a, b, c) ==
    [kind |-> kind, sheet |-> sheet, key |-> key, a |-> a, b |-> b, c |-> c]

RECURSIVE TableRows(_, _, _, _, _)
TableRows(item, row, cols, sheet, k) ==
    \* one row per key the sheet holds a number for: Current, Master, Variance
    IF k > Len(checks) THEN <<>>
    ELSE LET val == get_num(DictGet(item.sheets[sheet].vals, checks[k]))
             m_val == MasterValue(row, cols, checks[k])
         IN (IF val = None THEN <<>>
             ELSE <<Line("row", sheet, checks[k], val, m_val,
                         IF m_val = None THEN NA ELSE val - m_val)>>)
            \o TableRows(item, row, cols, sheet, k + 1)

SheetSection(item, row, cols, sheet) ==
    <<Line("header", sheet, HeaderInfo(item.sheets[sheet]),
           item.sheets[sheet].header_row, 0, 0)>>
    \o (IF TableRows(item, row, cols, sheet, 1) = <<>>
        THEN <<Line("nodata", sheet, "", 0, 0, 0)>>
        ELSE TableRows(item, row, cols, sheet, 1))

GrossOverNet(item) ==
    \* seeded fault: the logic check with the comparison turned round
    LET net == get_num(DictGet(item.sheets["PackingList"].vals, "col_net"))
        gross == get_num(DictGet(item.sheets["PackingList"].vals, "col_gross"))
    IN /\ net # None
       /\ gross # None
       /\ FGreater(ParseFloat(gross), ParseFloat(net))

NetOverGross(item) ==
    \* the logic check on the PackingList values: net > gross
    LET net == get_num(DictGet(item.sheets["PackingList"].vals, "col_net"))
        gross == get_num(DictGet(item.sheets["PackingList"].vals, "col_gross"))
    IN /\ net # None
       /\ gross # None
       /\ FGreater(ParseFloat(net), ParseFloat(gross))

LogicLines(item) ==
    IF NetOverGross(item)
    THEN <<Line("logic", "PackingList", "Critical Logic Error",
                item.sheets["PackingList"].vals["col_net"],
                item.sheets["PackingList"].vals["col_gross"], 0)>>
    ELSE <<>>

report_lines(item, row, cols) ==
    SheetSection(item, row, cols, "Invoice")
    \o SheetSection(item, row, cols, "PackingList")
    \o SheetSection(item, row, cols, "Contract")
    \o LogicLines(item)

LastRow(rows, id) ==
    \* seeded fault: the last row with this id is the one compared and updated
    IF \E r \in 1..Len(rows) : rows[r].id = id
    THEN CHOOSE r \in 1..Len(rows) :
             rows[r].id = id /\ \A q \in (r + 1)..Len(rows) : rows[q].id # id
    ELSE 0

FirstRow(rows, id) ==
    \* master_by_id[id][0]: the index of the first row with this id, 0 if none
    IF \E r \in 1..Len(rows) : rows[r].id = id
    THEN CHOOSE r \in 1..Len(rows) :
             rows[r].id = id /\ \A q \in 1..(r - 1) : rows[q].id # id
    ELSE 0

VerifyItem(item, row, cols) ==
    [item EXCEPT
        !.verification_details = Append(@, report_lines(item, row, cols)),
        !.status = IF all_match(item, row, cols) THEN "Verified" ELSE "Mismatch"]

UpdateRow(item, row, cols) ==
    [row EXCEPT
        !.verify = <<all_match(item, row, cols)>>,
        !.diff = [k \in Keys |-> IF k \in cols THEN <<DiffValue(item, row, k)>>
                                 ELSE row.diff[k]]]

RECURSIVE VerifyFrom(_, _, _, _)
VerifyFrom(items, rows, cols, i) ==
    \* the loop over the extracted items, from item i on
    IF i > Len(items) THEN [items |-> items, rows |-> rows]
    ELSE IF items[i].invoice_id = NoId THEN VerifyFrom(items, rows, cols, i + 1)
    ELSE IF FirstRow(rows, items[i].invoice_id) = 0
    THEN VerifyFrom([items EXCEPT ![i].status = "Missing from Master"],
                    rows, cols, i + 1)
    ELSE LET r == FirstRow(rows, items[i].invoice_id)
         IN VerifyFrom([items EXCEPT ![i] = VerifyItem(items[i], rows[r], cols)],
                       [rows EXCEPT ![r] = UpdateRow(items[i], rows[r], cols)],
                       cols, i + 1)

(***************************************************************************)
(* WorkbookExtractor: services/extraction_service.py.  A workbook is       *)
(* [loadable, sheets]; a sheet is [title, chart, total_row, header_row,    *)
(* cells]: chart says the sheet is a chart sheet, total_row whether        *)
(* find_smart_total_row finds a row, header_row is the row                 *)
(* detect_inspectable_columns settles on (-1 for none), and cells are the  *)
(* non-empty cells of the total row from left to right, each [ctype, kind, *)
(* n]: ctype is what identify_column_type answers for the cell's column    *)
(* ("none" for None), kind is "num" (the number n hundredths), "text"      *)
(* (text without digits) or "pallets" (the text "<n/100> pallets", which   *)
(* the workbooks of the model only hold in a pallet or untyped column).    *)
(***************************************************************************)
find_invoice_sheet(wb) ==
    \* the index of the first sheet, chart sheets included, named like an
    \* invoice; 0 for None
    IF \E i \in 1..Len(wb.sheets) : Contains(Lower(wb.sheets[i].title), <<"i", "n", "v">>)
    THEN CHOOSE i \in 1..Len(wb.sheets) :
             /\ Contains(Lower(wb.sheets[i].title), <<"i", "n", "v">>)
             /\ \A j \in 1..(i - 1) : ~Contains(Lower(wb.sheets[j].title), <<"i", "n", "v">>)
    ELSE 0

IsPackingTitle(title) ==
    \/ Contains(Lower(title), <<"p", "a", "c", "k">>)
    \/ /\ Contains(Lower(title), <<"w", "e", "i", "g", "h", "t">>)
       /\ Contains(Lower(title), <<"g", "r", "o", "s", "s">>) \/ Contains(Lower(title), <<"n", "e", "t">>)

RECURSIVE PackingFrom(_, _)
PackingFrom(wb, i) ==
    IF i > Len(wb.sheets) THEN <<>>
    ELSE (IF ~wb.sheets[i].chart /\ IsPackingTitle(wb.sheets[i].title)
          THEN <<i>> ELSE <<>>) \o PackingFrom(wb, i + 1)

find_all_packing_list_sheets(wb) == PackingFrom(wb, 1)

IsContractTitle(title) ==
    LET t == Lower(title)
    IN \/ Contains(t, <<"c", "o", "n", "t", "r", "a", "c", "t">>)
       \/ t = <<"c", "t">>
       \/ \E c \in {" ", "-", "&", "_"} : StartsWith(t, <<"c", "t">> \o <<c>>)
       \/ Len(t) >= 3 /\ SubSeq(t, Len(t) - 2, Len(t)) = <<" ", "c", "t">>

find_contract_sheet(wb) ==
    IF \E i \in 1..Len(wb.sheets) :
           ~wb.sheets[i].chart /\ IsContractTitle(wb.sheets[i].title)
    THEN CHOOSE i \in 1..Len(wb.sheets) :
             /\ ~wb.sheets[i].chart /\ IsContractTitle(wb.sheets[i].title)
             /\ \A j \in 1..(i - 1) :
                    wb.sheets[j].chart \/ ~IsContractTitle(wb.sheets[j].title)
    ELSE 0

Truncate(n) == (n \div 100) * 100

CellNumber(cell) ==
    \* regex_extract_number(str(value), default=0.0)
    IF cell.kind = "text" THEN 0 ELSE cell.n

Put(vals, key, v) == [vals EXCEPT ![key] = v]

Detection(sheet, vals) ==
    [vals |-> vals,
     det |-> IF sheet.header_row # -1 THEN "ok" ELSE "failed",
     header_row |-> sheet.header_row]

LastOfType(cells, ctype) ==
    \* found_cols[ctype]: the last cell of the row in a column of this type
    IF \E i \in 1..Len(cells) : cells[i].ctype = ctype
    THEN CHOOSE i \in 1..Len(cells) :
             cells[i].ctype = ctype
             /\ \A j \in (i + 1)..Len(cells) : cells[j].ctype # ctype
    ELSE 0

OrNA(cells, ctype) ==
    \* get_v(ctype) or "N/A"
    IF LastOfType(cells, ctype) = 0 THEN NA
    ELSE IF cells[LastOfType(cells, ctype)].kind # "num" THEN Text
    ELSE IF cells[LastOfType(cells, ctype)].n = 0 THEN NA
    ELSE cells[LastOfType(cells, ctype)].n

LastPalletText(cells) ==
    IF \E i \in 1..Len(cells) : cells[i].kind = "pallets"
    THEN CHOOSE i \in 1..Len(cells) :
             cells[i].kind = "pallets"
             /\ \A j \in (i + 1)..Len(cells) : cells[j].kind # "pallets"
    ELSE 0

InvoicePallets(cells) ==
    \* final_p as stored, Absent when nothing is stored
    LET p == LastOfType(cells, "col_pallet_count")
        pal_truthy == p # 0 /\ ~(cells[p].kind = "num" /\ cells[p].n = 0)
        q == LastPalletText(cells)
    IN IF pal_truthy THEN CellNumber(cells[p])
       ELSE IF q # 0 /\ cells[q].n # 0 THEN cells[q].n
       ELSE IF q # 0 THEN 0
       ELSE Absent

extract_invoice_sheet(sheet) ==
    IF ~sheet.total_row THEN Detection(sheet, NoValues)
    ELSE Detection(sheet,
            LET base == Put(Put(NoValues, "col_amount", OrNA(sheet.cells, "col_amount")),
                            "col_qty_sf", OrNA(sheet.cells, "col_qty_sf"))
            IN IF InvoicePallets(sheet.cells) = Absent THEN base
               ELSE Put(base, "col_pallet_count", InvoicePallets(sheet.cells)))

PackingDefaults == [k \in Keys |-> 0]

PackingCell(data, cell) ==
    \* one cell of the packing list's total row
    LET withText == IF cell.kind = "pallets" /\ Truncate(cell.n) > 0
                    THEN Put(data, "col_pallet_count", Truncate(cell.n))
                    ELSE data
    IN IF CellNumber(cell) = 0 \/ cell.ctype = "none" THEN withText
       ELSE IF cell.ctype \in {"col_qty_pcs", "col_pallet_count"}
       THEN Put(withText, cell.ctype, Truncate(CellNumber(cell)))
       ELSE Put(withText, cell.ctype, CellNumber(cell))

RECURSIVE PackingCells(_, _, _)
PackingCells(data, cells, i) ==
    IF i > Len(cells) THEN data
    ELSE PackingCells(PackingCell(data, cells[i]), cells, i + 1)

extract_packing_list_data(sheet) ==
    \* only the positive values are kept
    IF ~sheet.total_row THEN NoValues
    ELSE [k \in Keys |->
             IF PackingCells(PackingDefaults, sheet.cells, 1)[k] > 0
             THEN PackingCells(PackingDefaults, sheet.cells, 1)[k]
             ELSE Absent]

ContractCell(data, cell) ==
    IF CellNumber(cell) > 0 /\ cell.ctype \in {"col_qty_sf", "col_amount"}
    THEN Put(data, cell.ctype, CellNumber(cell))
    ELSE data

RECURSIVE ContractCells(_, _, _)
ContractCells(data, cells, i) ==
    IF i > Len(cells) THEN data
    ELSE ContractCells(ContractCell(data, cells[i]), cells, i + 1)

extract_contract_data(sheet) ==
    LET data == Put(Put(NoValues, "col_qty_sf", 0), "col_amount", 0)
    IN IF ~sheet.total_row THEN data ELSE ContractCells(data, sheet.cells, 1)

format_val(v) ==
    IF v = None \/ v = NA THEN NA ELSE v

NewInvoice(name) ==
    \* ExtractedInvoice(file_path, file_name).to_dict()
    [invoice_id |-> <<"U", "n", "k", "n", "o", "w", "n">>,
     file_name |-> name,
     flat |-> [k \in Keys |-> NA],
     sheets |-> [Invoice |-> EmptySheet, PackingList |-> EmptySheet,
                 Contract |-> EmptySheet],
     packing_candidates |-> <<>>,
     status |-> "Extracted",
     verification_details |-> <<>>]

Candidates(wb) ==
    [i \in 1..Len(find_all_packing_list_sheets(wb)) |->
        [sheet_name |-> wb.sheets[find_all_packing_list_sheets(wb)[i]].title,
         data |-> extract_packing_list_data(
                      wb.sheets[find_all_packing_list_sheets(wb)[i]])]]

Flatten(inv, pl) ==
    [k \in Keys |->
        IF k \in {"col_amount", "col_qty_sf"} THEN format_val(DictGet(inv, k))
        ELSE IF k = "col_pallet_count"
        THEN IF format_val(DictGet(inv, k)) = NA /\ DictGet(pl, k) \notin {None, 0}
             THEN format_val(pl[k])
             ELSE format_val(DictGet(inv, k))
        ELSE format_val(DictGet(pl, k))]

Backfill(inv, pl) ==
    \* the pallet strategy writes the packing list's count into the
    \* Invoice sheet's values
    IF format_val(DictGet(inv.vals, "col_pallet_count")) = NA
       /\ DictGet(pl, "col_pallet_count") \notin {None, 0}
    THEN [inv EXCEPT !.vals["col_pallet_count"] = pl["col_pallet_count"]]
    ELSE inv

Raises(wb) ==
    \* the sheet find_invoice_sheet returns is a chart sheet: it has no
    \* max_row and no iter_rows, and nothing catches the AttributeError
    /\ wb.loadable
    /\ find_invoice_sheet(wb) # 0
    /\ wb.sheets[find_invoice_sheet(wb)].chart

excel_data_extractor(name, wb) ==
    \* the record returned when the call returns
    IF ~wb.loadable THEN [NewInvoice(name) EXCEPT !.status = "Unknown"]
    ELSE LET inv == IF find_invoice_sheet(wb) = 0 THEN EmptySheet
                    ELSE extract_invoice_sheet(wb.sheets[find_invoice_sheet(wb)])
             packs == find_all_packing_list_sheets(wb)
             pl == IF packs = <<>> THEN EmptySheet
                   ELSE Detection(wb.sheets[packs[1]], Candidates(wb)[1].data)
             ct == IF find_contract_sheet(wb) = 0 THEN EmptySheet
                   ELSE Detection(wb.sheets[find_contract_sheet(wb)],
                            extract_contract_data(wb.sheets[find_contract_sheet(wb)]))
         IN [NewInvoice(name) EXCEPT
                !.sheets = [Invoice |-> Backfill(inv, pl.vals),
                            PackingList |-> pl, Contract |-> ct],
                !.packing_candidates = Candidates(wb),
                !.flat = Flatten(inv.vals, pl.vals)]

(***************************************************************************)
(* scan_invoice_files and the reconciliation of PipelineService.run.       *)
(***************************************************************************)
report_names ==
    {<<"m", "a", "n", "u", "a", "l", "_", "r", "e", "v", "i", "e", "w", "_", "n", "e", "e", "d", "e", "d", ".", "c", "s", "v">>,
     <<"f", "i", "n", "a", "l", "_", "i", "n", "v", "o", "i", "c", "e", "_", "d", "a", "t", "a", ".", "j", "s", "o", "n">>,
     <<"r", "e", "j", "e", "c", "t", "i", "o", "n", "_", "r", "e", "p", "o", "r", "t", ".", "c", "s", "v">>,
     <<"m", "i", "s", "s", "i", "n", "g", "_", "i", "n", "v", "o", "i", "c", "e", "s", ".", "c", "s", "v">>,
     <<"v", "e", "r", "i", "f", "i", "c", "a", "t", "i", "o", "n", "_", "r", "e", "p", "o", "r", "t", ".", "x", "l", "s", "x">>,
     <<"v", "e", "r", "i", "f", "i", "c", "a", "t", "i", "o", "n", "_", "r", "e", "p", "o", "r", "t", ".", "c", "s", "v">>}

Skipped(name) ==
    \/ Contains(Lower(name), <<"m", "a", "s", "t", "e", "r">>)
    \/ StartsWith(name, <<"~", "$">>)
    \/ name \in report_names

RECURSIVE ScanFrom(_, _)
ScanFrom(files, i) ==
    \* one entry per file kept; parse_filename is called without known ids
    IF i > Len(files) THEN <<>>
    ELSE (IF Skipped(files[i].name) THEN <<>>
          ELSE <<[original_path |-> i,
                  original_name |-> files[i].name,
                  extracted_id |-> CHOOSE id \in parse_filename(files[i].name, {}) : TRUE]>>)
         \o ScanFrom(files, i + 1)

scan_invoice_files(files) == ScanFrom(files, 1)

IsFailedParse(f) == f.extracted_id = NoId

MatchedKnownOnly(scanned, ids) ==
    \* seeded fault: without master identifiers no file is matched
    LET Test(f) == ~IsFailedParse(f) /\ f.extracted_id \in ids
    IN SelectSeq(scanned, Test)

Matched(scanned, ids) ==
    LET Test(f) == ~IsFailedParse(f) /\ (ids = {} \/ f.extracted_id \in ids)
    IN SelectSeq(scanned, Test)

Rejected(scanned, ids) ==
    LET Test(f) == ~IsFailedParse(f) /\ ids # {} /\ f.extracted_id \notin ids
    IN SelectSeq(scanned, Test)

FailedParse(scanned) == SelectSeq(scanned, IsFailedParse)

FoundMasterIds(scanned, ids) ==
    {scanned[i].extracted_id : i \in {j \in 1..Len(scanned) :
                                         ids # {} /\ scanned[j].extracted_id \in ids}}

reconcile_invoices(scanned, ids) ==
    \* extract_invoice_data.py: the same sorting without the branch for an
    \* empty master set
    LET InMaster(f) == ~IsFailedParse(f) /\ f.extracted_id \in ids
        NotInMaster(f) == ~IsFailedParse(f) /\ f.extracted_id \notin ids
    IN [matched |-> SelectSeq(scanned, InMaster),
        rejected |-> SelectSeq(scanned, NotInMaster),
        failed_parse |-> SelectSeq(scanned, IsFailedParse),
        missing |-> ids \ {scanned[i].extracted_id :
                              i \in {j \in 1..Len(scanned) : InMaster(scanned[j])}}]

NoTable == [present |-> FALSE, id_col |-> FALSE, cols |-> {}, rows |-> <<>>]

get_known_ids(table) ==
    IF ~table.present \/ ~table.id_col THEN {}
    ELSE {table.rows[r].id : r \in 1..Len(table.rows)}

verify_and_update(table, items) ==
    \* the items and the table after the call, which ends with the save
    IF ~table.present \/ ~table.id_col THEN [items |-> items, table |-> table]
    ELSE [items |-> VerifyFrom(items, table.rows, table.cols, 1).items,
          table |-> [table EXCEPT
                        !.rows = VerifyFrom(items, table.rows, table.cols, 1).rows]]

(***************************************************************************)
(* The inputs the model draws from: workbooks, files, master lists.        *)
(***************************************************************************)
MaxFiles == 2

Num(ctype, n) == [ctype |-> ctype, kind |-> "num", n |-> n]

Sheet(title, cells) ==
    [title |-> title, chart |-> FALSE, total_row |-> TRUE, header_row |-> 5,
     cells |-> cells]

InvoiceSheet(amount) ==
    Sheet(<<"I", "n", "v", "o", "i", "c", "e">>, <<[ctype |-> "none", kind |-> "text", n |-> 0],
                       Num("col_qty_sf", 5000), Num("col_amount", amount)>>)

PackingSheet(title, net, gross) ==
    Sheet(title, <<Num("col_qty_pcs", 1000), Num("col_net", net),
                   Num("col_gross", gross),
                   [ctype |-> "none", kind |-> "pallets", n |-> 200]>>)

ContractSheet(amount) ==
    Sheet(<<"C", "o", "n", "t", "r", "a", "c", "t">>, <<Num("col_qty_sf", 5000), Num("col_amount", amount)>>)

ChartSheet ==
    [title |-> <<"I", "n", "v", " ", "C", "h", "a", "r", "t">>, chart |-> TRUE, total_row |-> FALSE,
     header_row |-> -1, cells |-> <<>>]

WbGood ==
    [loadable |-> TRUE,
     sheets |-> <<InvoiceSheet(10000), PackingSheet(<<"P", "a", "c", "k", "i", "n", "g", " ", "L", "i", "s", "t">>, 4000, 5000),
                  ContractSheet(10000)>>]

WbNetOver ==
    [loadable |-> TRUE,
     sheets |-> <<InvoiceSheet(10000), PackingSheet(<<"P", "a", "c", "k", "i", "n", "g", " ", "L", "i", "s", "t">>, 5000, 4000),
                  ContractSheet(10000)>>]

WbTwoPacking ==
    [loadable |-> TRUE,
     sheets |-> <<InvoiceSheet(10000), PackingSheet(<<"P", "a", "c", "k", "i", "n", "g", " ", "L", "i", "s", "t">>, 4000, 5000),
                  PackingSheet(<<"P", "a", "c", "k", "i", "n", "g", " ", "2">>, 4500, 5000)>>]

WbContractBare ==
    \* the Contract sheet has no total row
    [loadable |-> TRUE,
     sheets |-> <<InvoiceSheet(10000),
                  [ContractSheet(10000) EXCEPT !.total_row = FALSE, !.cells = <<>>]>>]

WbChart ==
    [loadable |-> TRUE, sheets |-> <<ChartSheet, InvoiceSheet(10000)>>]

WbBroken == [loadable |-> FALSE, sheets |-> <<>>]

FilePool ==
    {[name |-> <<"I", "N", "V", "-", "1", "0", ".", "x", "l", "s", "x">>, wb |-> WbGood],
     [name |-> <<"I", "N", "V", "-", "1", "0", ".", "x", "l", "s">>, wb |-> WbBroken],
     [name |-> <<"C", "o", "p", "y", "_", "o", "f", "_", "I", "N", "V", "-", "1", "0", "_", "f", "i", "n", "a", "l", ".", "x", "l", "s", "x">>, wb |-> WbGood],
     [name |-> <<"i", "n", "v", "-", "1", ".", "x", "l", "s", "x">>, wb |-> WbNetOver],
     [name |-> <<"n", "o", "t", "e", "s", ".", "x", "l", "s", "x">>, wb |-> WbGood],
     [name |-> <<"m", "a", "s", "t", "e", "r", "_", "I", "N", "V", "-", "1", ".", "x", "l", "s", "x">>, wb |-> WbGood],
     [name |-> <<"A", "B", "C", "-", "2", "0", "0", "1", ".", "x", "l", "s", "x">>, wb |-> WbTwoPacking],
     [name |-> <<"R", "E", "V", "2", "_", "I", "N", "V", "-", "1", ".", "x", "l", "s", "x">>, wb |-> WbChart],
     [name |-> <<"X", "Y", "Z", "-", "9", ".", "x", "l", "s", "x">>, wb |-> WbContractBare]}

IsXls(name) ==
    Len(name) >= 4 /\ SubSeq(name, Len(name) - 3, Len(name)) = <<".", "x", "l", "s">>

Folders ==
    \* the files of the folder in the order the two globs list them: the
    \* .xlsx files, then the .xls files
    {f \in UNION {[1..n -> FilePool] : n \in 1..MaxFiles} :
        /\ \A i, j \in 1..Len(f) : i # j => f[i].name # f[j].name
        /\ \A i, j \in 1..Len(f) : (i < j /\ IsXls(f[i].name)) => IsXls(f[j].name)}

Expect(amount, net, gross) ==
    [k \in Keys |-> IF k = "col_amount" THEN amount
                    ELSE IF k = "col_qty_sf" THEN 5000
                    ELSE IF k = "col_qty_pcs" THEN 1000
                    ELSE IF k = "col_net" THEN net
                    ELSE IF k = "col_gross" THEN gross
                    ELSE None]

MasterRow(id, exp) ==
    [id |-> id, exp |-> exp, verify |-> <<>>, diff |-> [k \in Keys |-> <<>>]]

MasterFull ==
    [present |-> TRUE, id_col |-> TRUE,
     cols |-> {"col_amount", "col_qty_sf", "col_qty_pcs", "col_net", "col_gross"},
     rows |-> <<MasterRow(<<"I", "N", "V", "-", "1", "0">>, Expect(10000, 4000, 5000)),
                MasterRow(<<"I", "N", "V", "-", "1">>, Expect(10000, 5000, 4000)),
                MasterRow(<<"A", "B", "C", "-", "2", "0", "0", "1">>, Expect(10000, 4000, 5000))>>]

MasterAmounts ==
    [present |-> TRUE, id_col |-> TRUE, cols |-> {"col_amount"},
     rows |-> <<MasterRow(<<"I", "N", "V", "-", "1", "0">>, Expect(10001, None, None)),
                MasterRow(<<"I", "N", "V", "-", "1">>, Expect(10000, None, None)),
                MasterRow(<<"X", "Y", "Z", "-", "9">>, Expect(10000, None, None))>>]

MasterEmpty ==
    [present |-> TRUE, id_col |-> TRUE, cols |-> {"col_amount"}, rows |-> <<>>]

MasterTwice ==
    \* a master list that holds the identifier INV-10 in two rows
    [present |-> TRUE, id_col |-> TRUE, cols |-> {"col_amount"},
     rows |-> <<MasterRow(<<"I", "N", "V", "-", "1", "0">>, Expect(10000, None, None)),
                MasterRow(<<"I", "N", "V", "-", "1", "0">>, Expect(10001, None, None)),
                MasterRow(<<"I", "N", "V", "-", "1">>, Expect(10000, None, None))>>]

MasterPool == {MasterFull, MasterAmounts, MasterEmpty, NoTable}

ServicePool == MasterPool \cup {MasterTwice}

(***************************************************************************)
(* State.                                                                  *)
(*   folder, masterFile       what is on disk: the files of the target     *)
(*                            folder and the master list                   *)
(*   master_path              whether the pipeline was given a master path *)
(*   df                       the table the run's MasterDataService holds  *)
(*   pc                       where PipelineService.run stands             *)
(*   master_ids .. reports    the locals of run and the report files       *)
(*   hist                     MasterDataService used directly: the number  *)
(*                            of verify_and_update calls and the outputs   *)
(*                            of the call before the last                  *)
(*   gui                      the master editor beside the background run  *)
(*   vf                       one verify_file call of the sheet verifier   *)
(*   cmp                      one field comparison                         *)
(*   call                     one call of a function of the extractors or  *)
(*                            of the file name resolvers: its name, its    *)
(*                            arguments and what it returned               *)
(***************************************************************************)
VARIABLES folder, masterFile, master_path, df, pc, master_ids, scanned_files,
          matched, rejected, failed_parse, missing_ids, final_results,
          reports, hist, gui, vf, cmp, call

runVars ==
    <<df, pc, master_ids, scanned_files, matched, rejected, failed_parse,
      missing_ids, final_results, reports>>

vars ==
    <<folder, masterFile, master_path, df, pc, master_ids, scanned_files,
      matched, rejected, failed_parse, missing_ids, final_results,
      reports, hist, gui, vf, cmp, call>>

NoReports == [missing |-> <<>>, rejection |-> <<>>, json |-> <<>>]

NoHist == [calls |-> 0, prev |-> <<>>]

NoGui ==
    [editor |-> NoTable, writers |-> {}, version |-> 0,
     base |-> [editor |-> NoTable, run |-> NoTable], stale |-> FALSE, midrun |-> FALSE,
     edits |-> 0]

NoVf ==
    [wb |-> [loadable |-> FALSE, sheets |-> <<>>], master |-> [k \in {} |-> 0],
     result |-> <<>>]

NoCall == [fn |-> "", arg |-> <<>>, ret |-> <<>>]

NoCmp == [extracted |-> 0, master |-> 0, by |-> "", flagged |-> <<>>]

RunInit ==
    /\ df = NoTable
    /\ pc = "start"
    /\ master_ids = {}
    /\ scanned_files = <<>>
    /\ matched = <<>>
    /\ rejected = <<>>
    /\ failed_parse = <<>>
    /\ missing_ids = {}
    /\ final_results = <<>>
    /\ reports = NoReports

Init ==
    /\ folder \in Folders
    /\ master_path \in BOOLEAN
    /\ masterFile \in (IF master_path THEN MasterPool ELSE {NoTable})
    /\ RunInit
    /\ hist = NoHist
    /\ call = NoCall
    /\ gui = NoGui
    /\ vf = NoVf
    /\ cmp = NoCmp

(***************************************************************************)
(* PipelineService.run, step by step.                                      *)
(***************************************************************************)
RunLoadMaster ==
    \* 1. load the master list; a failed load only prints a warning
    /\ pc = "start"
    /\ df' = IF master_path /\ masterFile.present THEN masterFile ELSE NoTable
    /\ master_ids' = IF master_path THEN get_known_ids(masterFile) ELSE {}
    /\ pc' = "scan"
    /\ UNCHANGED <<call, folder, masterFile, master_path, scanned_files, matched,
                   rejected, failed_parse, missing_ids, final_results, reports,
                   hist, gui, vf, cmp>>

RunScan ==
    \* 3. scan the folder
    /\ pc = "scan"
    /\ scanned_files' = scan_invoice_files(folder)
    /\ pc' = "reconcile"
    /\ UNCHANGED <<call, folder, masterFile, master_path, df, master_ids, matched,
                   rejected, failed_parse, missing_ids, final_results, reports,
                   hist, gui, vf, cmp>>

RunReconcile ==
    \* 4. sort the scanned files into matched, rejected and failed_parse
    /\ pc = "reconcile"
    /\ matched' = Matched(scanned_files, master_ids)
    /\ rejected' = Rejected(scanned_files, master_ids)
    /\ failed_parse' = FailedParse(scanned_files)
    /\ missing_ids' = master_ids \ FoundMasterIds(scanned_files, master_ids)
    /\ pc' = "report"
    /\ UNCHANGED <<call, folder, masterFile, master_path, df, master_ids,
                   scanned_files, final_results, reports, hist, gui, vf, cmp>>

RejectionRows ==
    [i \in 1..Len(rejected) |->
        [Filename |-> rejected[i].original_name, ID |-> rejected[i].extracted_id,
         Status |-> "Unknown ID"]]
    \o [i \in 1..Len(failed_parse) |->
        [Filename |-> failed_parse[i].original_name, ID |-> NoId,
         Status |-> "Parse Error"]]

RunReport ==
    \* 5. _generate_rejection_report: a file is written only for a
    \* non-empty list
    /\ pc = "report"
    /\ reports' = [reports EXCEPT
                      !.missing = IF missing_ids # {} THEN <<missing_ids>> ELSE @,
                      !.rejection = IF RejectionRows # <<>> THEN <<RejectionRows>>
                                    ELSE @]
    /\ pc' = "extract"
    /\ UNCHANGED <<call, folder, masterFile, master_path, df, master_ids,
                   scanned_files, matched, rejected, failed_parse, missing_ids,
                   final_results, hist, gui, vf, cmp>>

NextFile == matched[Len(final_results) + 1]

RunExtract ==
    \* 6. one turn of the extraction loop: the record of the next matched
    \* file, with the identifier of the file name enforced
    /\ pc = "extract"
    /\ Len(final_results) < Len(matched)
    /\ ~Raises(folder[NextFile.original_path].wb)
    /\ final_results' = Append(final_results,
           [excel_data_extractor(NextFile.original_name,
                                 folder[NextFile.original_path].wb)
               EXCEPT !.invoice_id = NextFile.extracted_id])
    /\ UNCHANGED <<call, folder, masterFile, master_path, df, pc, master_ids,
                   scanned_files, matched, rejected, failed_parse, missing_ids,
                   reports, hist, gui, vf, cmp>>

RunExtractRaises ==
    \* excel_data_extractor raises: nothing in the loop or in run catches it
    /\ pc = "extract"
    /\ Len(final_results) < Len(matched)
    /\ Raises(folder[NextFile.original_path].wb)
    /\ pc' = "raised"
    /\ UNCHANGED <<call, folder, masterFile, master_path, df, master_ids,
                   scanned_files, matched, rejected, failed_parse, missing_ids,
                   final_results, reports, hist, gui, vf, cmp>>

RunWriteJson ==
    \* 7. final_invoice_data.json is written before the verification
    /\ pc = "extract"
    /\ Len(final_results) = Len(matched)
    /\ reports' = [reports EXCEPT !.json = <<final_results>>]
    /\ pc' = "verify"
    /\ UNCHANGED <<call, folder, masterFile, master_path, df, master_ids,
                   scanned_files, matched, rejected, failed_parse, missing_ids,
                   final_results, hist, gui, vf, cmp>>

LoadedTable == IF df.present THEN df ELSE masterFile

RunVerify ==
    \* 8. verify against the master and save it, then return
    /\ pc = "verify"
    /\ IF master_path /\ final_results # <<>>
       THEN /\ final_results' = verify_and_update(LoadedTable, final_results).items
            /\ df' = verify_and_update(LoadedTable, final_results).table
            /\ masterFile' = IF LoadedTable.present /\ LoadedTable.id_col
                             THEN df' ELSE masterFile
       ELSE UNCHANGED <<final_results, df, masterFile>>
    /\ pc' = "done"
    /\ UNCHANGED <<call, folder, master_path, master_ids, scanned_files, matched,
                   rejected, failed_parse, missing_ids, reports, hist, gui,
                   vf, cmp>>

Next ==
    \/ RunLoadMaster
    \/ RunScan
    \/ RunReconcile
    \/ RunReport
    \/ RunExtract
    \/ RunExtractRaises
    \/ RunWriteJson
    \/ RunVerify

Spec == Init /\ [][Next]_vars

(***************************************************************************)
(* MasterDataService used directly: a caller holds a list of extracted     *)
(* records and calls load and verify_and_update on one service.            *)
(***************************************************************************)
MaxItems == 2

MaxCalls == 2

Rec(name, wb, id) ==
    [excel_data_extractor(name, wb) EXCEPT !.invoice_id = id]

RecordPool ==
    {Rec(<<"a", ".", "x", "l", "s", "x">>, WbGood, <<"I", "N", "V", "-", "1", "0">>),
     Rec(<<"b", ".", "x", "l", "s", "x">>, WbNetOver, <<"I", "N", "V", "-", "1">>),
     Rec(<<"c", ".", "x", "l", "s", "x">>, WbNetOver, <<"I", "N", "V", "-", "1", "0">>),
     Rec(<<"d", ".", "x", "l", "s", "x">>, WbTwoPacking, <<"A", "B", "C", "-", "2", "0", "0", "1">>),
     Rec(<<"e", ".", "x", "l", "s", "x">>, WbNetOver, <<"N", "E", "W", "-", "7">>),
     Rec(<<"f", ".", "x", "l", "s">>, WbBroken, <<"I", "N", "V", "-", "1", "0">>),
     Rec(<<"g", ".", "x", "l", "s", "x">>, WbGood, NoId)}

ItemLists == UNION {[1..n -> RecordPool] : n \in 1..MaxItems}

InitMaster ==
    /\ folder = <<>>
    /\ master_path = TRUE
    /\ masterFile \in ServicePool
    /\ df = NoTable
    /\ pc = "service"
    /\ master_ids = {}
    /\ scanned_files = <<>>
    /\ matched = <<>>
    /\ rejected = <<>>
    /\ failed_parse = <<>>
    /\ missing_ids = {}
    /\ final_results \in ItemLists
    /\ reports = NoReports
    /\ hist = NoHist
    /\ call = NoCall
    /\ gui = NoGui
    /\ vf = NoVf
    /\ cmp = NoCmp

Outputs(table, items) ==
    \* what a call leaves behind: DIFF_* and VERIFY STATE per master row, the
    \* status per record
    [diff |-> [r \in 1..Len(table.rows) |-> table.rows[r].diff],
     verify |-> [r \in 1..Len(table.rows) |-> table.rows[r].verify],
     status |-> [i \in 1..Len(items) |-> items[i].status]]

ServiceLoad ==
    \* MasterDataService.load
    /\ pc = "service"
    /\ masterFile.present
    /\ df' = masterFile
    /\ UNCHANGED <<call, folder, masterFile, master_path, pc, master_ids,
                   scanned_files, matched, rejected, failed_parse, missing_ids,
                   final_results, reports, hist, gui, vf, cmp>>

ServiceVerify ==
    \* MasterDataService.verify_and_update(final_results)
    /\ pc = "service"
    /\ hist.calls < MaxCalls
    /\ final_results' = verify_and_update(LoadedTable, final_results).items
    /\ df' = verify_and_update(LoadedTable, final_results).table
    /\ masterFile' = IF LoadedTable.present /\ LoadedTable.id_col
                     THEN df' ELSE masterFile
    /\ hist' = [calls |-> hist.calls + 1,
                prev |-> <<Outputs(df, final_results)>>]
    /\ UNCHANGED <<call, folder, master_path, pc, master_ids, scanned_files, matched,
                   rejected, failed_parse, missing_ids, reports, gui, vf, cmp>>

NextMaster ==
    \/ ServiceLoad
    \/ ServiceVerify

SpecMaster == InitMaster /\ [][NextMaster]_vars

(***************************************************************************)
(* One field comparison, as verify_and_update and verify_file make it.     *)
(***************************************************************************)
CmpLow == 9995

CmpHigh == 10005

InitCompare ==
    /\ folder = <<>>
    /\ master_path = FALSE
    /\ masterFile = NoTable
    /\ RunInit
    /\ hist = NoHist
    /\ call = NoCall
    /\ gui = NoGui
    /\ vf = NoVf
    /\ cmp \in [extracted : CmpLow..CmpHigh, master : CmpLow..CmpHigh,
                by : {""}, flagged : {<<>>}]

CompareService ==
    \* master_data_service.py: diff = sheet_value - master_value; abs(diff) > 0.01
    /\ cmp.flagged = <<>>
    /\ cmp' = [cmp EXCEPT !.by = "verify_and_update",
                           !.flagged = <<ExceedsTolerance(cmp.extracted, cmp.master)>>]
    /\ UNCHANGED <<call, folder, masterFile, master_path, runVars, hist, gui, vf>>

CompareVerifier ==
    \* verifier.py: abs(float(expected_val) - float(actual)) > 0.01
    /\ cmp.flagged = <<>>
    /\ cmp' = [cmp EXCEPT !.by = "verify_file",
                           !.flagged = <<ExceedsTolerance(cmp.master, cmp.extracted)>>]
    /\ UNCHANGED <<call, folder, masterFile, master_path, runVars, hist, gui, vf>>

NextCompare ==
    \/ CompareService
    \/ CompareVerifier

SpecCompare == InitCompare /\ [][NextCompare]_vars

(***************************************************************************)
(* The strict sheet verifier: sheet_verifier/extractor.py and              *)
(* sheet_verifier/verifier.py.  Here a sheet is [title, header, total,     *)
(* cols]: header says a row with three or more mapped headers exists,      *)
(* total that a cell matches the total-row pattern, and cols are the       *)
(* cells of the total row from left to right, each [col_id, kind, n] with  *)
(* col_id the inspectable field its header maps to ("none" without one)    *)
(* and kind "num" (the number n), "empty", "dash" (the text "-"), "text"   *)
(* (text float() rejects) or "pallets" (the text "<n/100> pallets").       *)
(***************************************************************************)
REQUIRED_COLS ==
    [invoice |-> {"col_qty_sf", "col_amount", "col_pallet_count"},
     packing_list |-> {"col_qty_sf", "col_pallet_count", "col_qty_pcs",
                       "col_net", "col_gross", "col_cbm"},
     contract |-> {"col_qty_sf", "col_amount"}]

target_sheets ==
    <<[key |-> <<"i", "n", "v", "o", "i", "c", "e">>, type |-> "invoice", display |-> "Invoice"],
      [key |-> <<"p", "a", "c", "k", "i", "n", "g", " ", "l", "i", "s", "t">>, type |-> "packing_list", display |-> "Packing List"],
      [key |-> <<"c", "o", "n", "t", "r", "a", "c", "t">>, type |-> "contract", display |-> "Contract"]>>

CleansToZero(cell) ==
    \* seeded fault: text that is no number is cleaned to 0.0
    IF cell.kind = "num" THEN [raised |-> FALSE, v |-> cell.n]
    ELSE IF cell.kind = "empty" THEN [raised |-> FALSE, v |-> None]
    ELSE [raised |-> FALSE, v |-> 0]

clean_number(cell) ==
    \* _clean_number: the value, or the ParsingError raised
    IF cell.kind = "num" THEN [raised |-> FALSE, v |-> cell.n]
    ELSE IF cell.kind = "empty" THEN [raised |-> FALSE, v |-> None]
    ELSE IF cell.kind = "dash" THEN [raised |-> FALSE, v |-> 0]
    ELSE [raised |-> TRUE, v |-> None]

Detail(kind, sheet, col, value) ==
    [kind |-> kind, sheet |-> sheet, col |-> col, value |-> value]

RECURSIVE CleanCols(_, _, _)
CleanCols(data, sheet, i) ==
    \* the pass over the total row that fills values for the header's columns
    IF i > Len(sheet.cols) THEN data
    ELSE IF ~sheet.header \/ sheet.cols[i].col_id \notin Keys
    THEN CleanCols(data, sheet, i + 1)
    ELSE CleanCols(
            [values |-> Put(data.values, sheet.cols[i].col_id,
                            clean_number(sheet.cols[i]).v),
             errors |-> IF clean_number(sheet.cols[i]).raised
                        THEN data.errors \cup {sheet.cols[i].col_id}
                        ELSE data.errors],
            sheet, i + 1)

LastPallets(sheet) ==
    IF \E i \in 1..Len(sheet.cols) : sheet.cols[i].kind = "pallets"
    THEN CHOOSE i \in 1..Len(sheet.cols) :
             sheet.cols[i].kind = "pallets"
             /\ \A j \in (i + 1)..Len(sheet.cols) : sheet.cols[j].kind # "pallets"
    ELSE 0

extract_sheet_data(sheet) ==
    \* [extraction_status, extraction_errors, values]
    LET headerErr == IF sheet.header THEN {} ELSE {"Header row not found"}
        cleaned == CleanCols([values |-> NoValues, errors |-> {}], sheet, 1)
        values == IF LastPallets(sheet) = 0 THEN cleaned.values
                  ELSE Put(cleaned.values, "col_pallet_count",
                           sheet.cols[LastPallets(sheet)].n)
    IN IF ~sheet.total
       THEN [extraction_status |-> "failed",
             extraction_errors |-> headerErr \cup {"No Total row found"},
             values |-> NoValues]
       ELSE [extraction_status |-> IF headerErr \cup cleaned.errors = {} THEN "ok"
                                   ELSE "failed",
             extraction_errors |-> headerErr \cup cleaned.errors,
             values |-> values]

SheetFor(wb, key) ==
    \* the index of the first sheet whose lower-cased name contains the key
    IF \E i \in 1..Len(wb.sheets) : Contains(Lower(wb.sheets[i].title), key)
    THEN CHOOSE i \in 1..Len(wb.sheets) :
             /\ Contains(Lower(wb.sheets[i].title), key)
             /\ \A j \in 1..(i - 1) : ~Contains(Lower(wb.sheets[j].title), key)
    ELSE 0

RoleDetails(wb, master_record, t) ==
    \* the details one sheet role adds: extraction errors, missing or
    \* invalid required columns, partition entries and mismatches
    IF SheetFor(wb, t.key) = 0 THEN {}
    ELSE LET extracted == extract_sheet_data(wb.sheets[SheetFor(wb, t.key)])
             present == {c \in REQUIRED_COLS[t.type] :
                            extracted.values[c] \notin {Absent, None}}
         IN {Detail("extraction", t.display, e, 0) : e \in extracted.extraction_errors}
            \cup {Detail("MISSING or INVALID", t.display, c, 0) :
                     c \in REQUIRED_COLS[t.type] \ present}
            \cup {Detail("partition", t.display, c, extracted.values[c]) : c \in present}
            \cup {Detail("Mismatch", t.display, c, extracted.values[c]) :
                     c \in {d \in present :
                               /\ master_record[d] # Absent
                               /\ ExceedsTolerance(master_record[d], extracted.values[d])}}

NoRecord == [k \in Keys |-> Absent]

verify_file(wb, master_record) ==
    \* [status, details]
    IF master_record = NoRecord
    THEN [status |-> "FAIL", details |-> {Detail("No Master Record", "", "", 0)}]
    ELSE IF ~wb.loadable
    THEN [status |-> "ERROR", details |-> {Detail("Could not open file", "", "", 0)}]
    ELSE LET details == UNION {RoleDetails(wb, master_record, target_sheets[i]) :
                                  i \in 1..Len(target_sheets)}
         IN [status |-> IF \E d \in details : d.kind # "partition" THEN "FAIL"
                        ELSE "PASS",
             details |-> IF details = {}
                         THEN {Detail("All strict checks passed.", "", "", 0)}
                         ELSE details]

MaxBad == 1

CellKinds == {"num", "empty", "dash", "text", "missing"}

RECURSIVE ColsOf(_, _)
ColsOf(kinds, k) ==
    \* the total-row cells of the columns kinds names, in the order of checks
    IF k > Len(checks) THEN <<>>
    ELSE (IF checks[k] \in DOMAIN kinds /\ kinds[checks[k]] # "missing"
          THEN <<[col_id |-> checks[k], kind |-> kinds[checks[k]], n |-> 5000]>>
          ELSE <<>>) \o ColsOf(kinds, k + 1)

TitleOf(type) ==
    IF type = "invoice" THEN <<"I", "n", "v", "o", "i", "c", "e">>
    ELSE IF type = "packing_list" THEN <<"P", "a", "c", "k", "i", "n", "g", " ", "L", "i", "s", "t">>
    ELSE <<"C", "o", "n", "t", "r", "a", "c", "t">>

VfSheet(type, kinds, shape, pal) ==
    [title |-> TitleOf(type),
     header |-> shape # "noheader",
     total |-> shape # "nototal",
     cols |-> ColsOf(kinds, 1)
              \o (IF pal THEN <<[col_id |-> "none", kind |-> "pallets", n |-> 200]>>
                  ELSE <<>>)]

GoodSheet(type) ==
    VfSheet(type, [c \in REQUIRED_COLS[type] |-> "num"], "ok", FALSE)

OtherSheets(type) ==
    \* valid sheets of the two other roles
    IF type = "invoice" THEN <<GoodSheet("packing_list"), GoodSheet("contract")>>
    ELSE IF type = "packing_list" THEN <<GoodSheet("invoice"), GoodSheet("contract")>>
    ELSE <<GoodSheet("invoice"), GoodSheet("packing_list")>>

KindChoices(type) ==
    {k \in [REQUIRED_COLS[type] -> CellKinds] :
        Cardinality({c \in REQUIRED_COLS[type] : k[c] # "num"}) <= MaxBad}

VfWorkbooksOf(type) ==
    {[loadable |-> TRUE,
      sheets |-> <<VfSheet(type, kinds, shape, pal)>>
                 \o (IF others THEN OtherSheets(type) ELSE <<>>)] :
        shape \in {"ok", "noheader", "nototal"}, pal \in BOOLEAN,
        others \in BOOLEAN, kinds \in KindChoices(type)}

VfWorkbooks ==
    {[loadable |-> FALSE, sheets |-> <<>>]}
    \cup UNION {VfWorkbooksOf(type) : type \in DOMAIN REQUIRED_COLS}

VfMasters ==
    {NoRecord,
     [k \in Keys |-> 5000],
     [k \in Keys |-> IF k = "col_qty_sf" THEN 5002 ELSE Absent]}

InitVerifyFile ==
    /\ folder = <<>>
    /\ master_path = FALSE
    /\ masterFile = NoTable
    /\ RunInit
    /\ hist = NoHist
    /\ call = NoCall
    /\ gui = NoGui
    /\ cmp = NoCmp
    /\ vf \in [wb : VfWorkbooks, master : VfMasters, result : {<<>>}]

VerifyFile ==
    \* InvoiceVerifier.verify_file(file_path, master_record)
    /\ vf.result = <<>>
    /\ vf' = [vf EXCEPT !.result = <<verify_file(vf.wb, vf.master)>>]
    /\ UNCHANGED <<call, folder, masterFile, master_path, runVars, hist, gui, cmp>>

NextVerifyFile == VerifyFile

SpecVerifyFile == InitVerifyFile /\ [][NextVerifyFile]_vars

(***************************************************************************)
(* The window: ui/app_window.py and ui/components/master_editor.py.  The   *)
(* editor works on the table of the window's MasterDataService; a run is   *)
(* a thread with a PipelineService and a MasterDataService of its own.     *)
(* gui is                                                                  *)
(*   editor    the table the editor's service holds (NoTable: none loaded) *)
(*   writers   who is inside a to_csv / to_excel of the master file        *)
(*   version   the number of writes of the master file completed           *)
(*   base      per holder of a table, the file as the holder read it or    *)
(*             last wrote it                                               *)
(*   stale     a write was completed over a file that another writer had   *)
(*             changed since the table written was read                    *)
(*   midrun    the editor saved while a run was in progress                *)
(*   edits     the number of cell edits made                               *)
(* A write is two steps, its start and its end: the writes of two threads  *)
(* overlap.  The file holds what the writer that ends last wrote.  The     *)
(* handlers of the window run one at a time on the main thread, so none    *)
(* starts while the editor's save is under way.                            *)
(***************************************************************************)
MaxEdits == 1

MaxWrites == 2

EditValue == 12345

GuiFolders ==
    {f \in Folders : Len(f) = 1 /\ f[1].wb \in {WbGood, WbChart}
                     /\ ~Skipped(f[1].name) /\ ~IsXls(f[1].name)}

InitGui ==
    /\ folder \in GuiFolders
    /\ master_path = TRUE
    /\ masterFile \in {MasterFull, MasterAmounts}
    /\ df = NoTable
    /\ pc = "idle"
    /\ master_ids = {}
    /\ scanned_files = <<>>
    /\ matched = <<>>
    /\ rejected = <<>>
    /\ failed_parse = <<>>
    /\ missing_ids = {}
    /\ final_results = <<>>
    /\ reports = NoReports
    /\ hist = NoHist
    /\ call = NoCall
    /\ gui = NoGui
    /\ vf = NoVf
    /\ cmp = NoCmp

RunInProgress == pc \notin {"idle", "done", "raised"}

GuiLoadMaster ==
    \* _load_master: a new service for the window, loaded, handed to the editor
    \* (set_service reloads it)
    /\ "editor" \notin gui.writers
    /\ gui' = [gui EXCEPT !.editor = masterFile, !.base.editor = masterFile]
    /\ UNCHANGED <<call, folder, masterFile, master_path, runVars, hist, vf, cmp>>

GuiEdit ==
    \* on_double_click: the text entered replaces one cell of the editor's table
    /\ gui.editor.present
    /\ "editor" \notin gui.writers
    /\ gui.edits < MaxEdits
    /\ \E r \in 1..Len(gui.editor.rows) : \E k \in gui.editor.cols :
          gui' = [gui EXCEPT !.editor.rows[r].exp[k] = EditValue,
                             !.edits = @ + 1]
    /\ UNCHANGED <<call, folder, masterFile, master_path, runVars, hist, vf, cmp>>

GuiSaveStart ==
    \* save_data: to_csv / to_excel of the editor's table opens the master file
    /\ gui.editor.present
    /\ "editor" \notin gui.writers
    /\ gui.version < MaxWrites
    /\ gui' = [gui EXCEPT !.writers = @ \cup {"editor"},
                          !.midrun = @ \/ RunInProgress]
    /\ UNCHANGED <<call, folder, masterFile, master_path, runVars, hist, vf, cmp>>

GuiSaveEnd ==
    \* save_data: the write is complete
    /\ "editor" \in gui.writers
    /\ masterFile' = gui.editor
    /\ gui' = [gui EXCEPT !.writers = @ \ {"editor"},
                          !.version = @ + 1,
                          !.base.editor = gui.editor,
                          !.stale = @ \/ gui.base.editor # masterFile]
    /\ UNCHANGED <<call, folder, master_path, runVars, hist, vf, cmp>>

GuiStartRun ==
    \* _start_run: the run button is disabled and the thread started
    /\ pc = "idle"
    /\ "editor" \notin gui.writers
    /\ pc' = "start"
    /\ df' = NoTable
    /\ master_ids' = {}
    /\ scanned_files' = <<>>
    /\ matched' = <<>>
    /\ rejected' = <<>>
    /\ failed_parse' = <<>>
    /\ missing_ids' = {}
    /\ final_results' = <<>>
    /\ UNCHANGED <<call, folder, masterFile, master_path, reports, hist, gui, vf, cmp>>

ThreadLoadMaster ==
    \* run, step 1, in the thread: the run's own service reads the master file
    /\ pc = "start"
    /\ df' = IF masterFile.present THEN masterFile ELSE NoTable
    /\ master_ids' = get_known_ids(masterFile)
    /\ pc' = "scan"
    /\ gui' = [gui EXCEPT !.base.run = masterFile]
    /\ UNCHANGED <<call, folder, masterFile, master_path, scanned_files, matched,
                   rejected, failed_parse, missing_ids, final_results, reports,
                   hist, vf, cmp>>

ThreadVerifyStart ==
    \* run, step 8, in the thread: every record is compared, then the save of
    \* the run's table opens the master file
    /\ pc = "verify"
    /\ IF final_results # <<>> /\ LoadedTable.present /\ LoadedTable.id_col
       THEN /\ gui.version < MaxWrites
            /\ final_results' = verify_and_update(LoadedTable, final_results).items
            /\ df' = verify_and_update(LoadedTable, final_results).table
            /\ gui' = [gui EXCEPT !.writers = @ \cup {"run"}]
            /\ pc' = "saving"
       ELSE /\ pc' = "done"
            /\ UNCHANGED <<final_results, df, gui>>
    /\ UNCHANGED <<call, folder, masterFile, master_path, master_ids, scanned_files,
                   matched, rejected, failed_parse, missing_ids, reports, hist,
                   vf, cmp>>

ThreadVerifyEnd ==
    \* the run's write is complete and run returns
    /\ pc = "saving"
    /\ masterFile' = df
    /\ gui' = [gui EXCEPT !.writers = @ \ {"run"},
                          !.version = @ + 1,
                          !.base.run = df,
                          !.stale = @ \/ gui.base.run # masterFile]
    /\ pc' = "done"
    /\ UNCHANGED <<call, folder, master_path, df, master_ids, scanned_files, matched,
                   rejected, failed_parse, missing_ids, final_results, reports,
                   hist, vf, cmp>>

GuiInspectComplete ==
    \* _on_inpect_complete: the editor reloads the master file, the run button
    \* is enabled again
    /\ pc = "done"
    /\ "editor" \notin gui.writers
    /\ gui' = IF gui.editor.present
              THEN [gui EXCEPT !.editor = masterFile, !.base.editor = masterFile]
              ELSE gui
    /\ pc' = "idle"
    /\ UNCHANGED <<call, folder, masterFile, master_path, df, master_ids,
                   scanned_files, matched, rejected, failed_parse, missing_ids,
                   final_results, reports, hist, vf, cmp>>

GuiRunError ==
    \* _run_thread's except: an error dialog, the run button is enabled again
    /\ pc = "raised"
    /\ "editor" \notin gui.writers
    /\ pc' = "idle"
    /\ UNCHANGED <<call, folder, masterFile, master_path, df, master_ids,
                   scanned_files, matched, rejected, failed_parse, missing_ids,
                   final_results, reports, hist, gui, vf, cmp>>

NextGui ==
    \/ GuiLoadMaster
    \/ GuiEdit
    \/ GuiSaveStart
    \/ GuiSaveEnd
    \/ GuiStartRun
    \/ ThreadLoadMaster
    \/ RunScan
    \/ RunReconcile
    \/ RunReport
    \/ RunExtract
    \/ RunExtractRaises
    \/ RunWriteJson
    \/ ThreadVerifyStart
    \/ ThreadVerifyEnd
    \/ GuiInspectComplete
    \/ GuiRunError

SpecGui == InitGui /\ [][NextGui]_vars

(***************************************************************************)
(* Sheets as grids.  A grid is the sequence of a sheet's rows from row 1   *)
(* on, a row the sequence of its cells from column 1 on, and a cell        *)
(* [v, f]: what the workbook loaded with data_only=True holds (v) and what *)
(* the workbook loaded with data_only=False holds (f).  Either is          *)
(* [t, s, n]: None (t = "none"), the string s (t = "str") or the whole     *)
(* number n (t = "num").                                                   *)
(***************************************************************************)
Blank == [t |-> "none", s |-> <<>>, n |-> 0]

StrVal(s) == [t |-> "str", s |-> s, n |-> 0]

NumVal(n) == [t |-> "num", s |-> <<>>, n |-> n]

Cell(v, f) == [v |-> v, f |-> f]

Plain(x) == Cell(x, x)

Truthy(x) ==
    \* Python's truth of a cell value
    \/ x.t = "str" /\ x.s # <<>>
    \/ x.t = "num" /\ x.n # 0

DigitChars == <<"0", "1", "2", "3", "4", "5", "6", "7", "8", "9">>

RECURSIVE Decimal(_)
Decimal(n) ==
    IF n < 10 THEN <<DigitChars[n + 1]>>
    ELSE Decimal(n \div 10) \o <<DigitChars[(n % 10) + 1]>>

StrOf(x) ==
    \* str(value) of a string or of a whole number
    IF x.t = "str" THEN x.s ELSE Decimal(x.n)

IsSpace(c) == c \in {" ", "\n", "\t"}

Strip(s) ==
    \* str.strip()
    IF \A i \in 1..Len(s) : IsSpace(s[i]) THEN <<>>
    ELSE SubSeq(s,
                CHOOSE i \in 1..Len(s) :
                    ~IsSpace(s[i]) /\ \A j \in 1..(i - 1) : IsSpace(s[j]),
                CHOOSE i \in 1..Len(s) :
                    ~IsSpace(s[i]) /\ \A j \in (i + 1)..Len(s) : IsSpace(s[j]))

NewlinesToSpaces(s) ==
    \* str.replace('\n', ' ')
    [i \in 1..Len(s) |-> IF s[i] = "\n" THEN " " ELSE s[i]]

RECURSIVE HalveSpacePairs(_)
HalveSpacePairs(s) ==
    \* str.replace('  ', ' '): one pass from the left, pairs do not overlap
    IF Len(s) < 2 THEN s
    ELSE IF s[1] = " " /\ s[2] = " "
    THEN <<" ">> \o HalveSpacePairs(SubSeq(s, 3, Len(s)))
    ELSE <<s[1]>> \o HalveSpacePairs(Tail(s))

At(grid, r, c) ==
    \* sheet.cell(row=r, column=c)
    IF r \in 1..Len(grid) /\ c \in 1..Len(grid[r]) THEN grid[r][c]
    ELSE Plain(Blank)

(***************************************************************************)
(* AliasTable: the two groups of mapping_config.json, each a sequence of   *)
(* [key, id] in file order.  A loaded table is the sequence of the         *)
(* normalized entries in insertion order; of two entries with one key the  *)
(* later is the one a lookup sees ("" stands for no entry).                *)
(***************************************************************************)
NormalizedGroup(group) ==
    \* normalized[k.lower().strip()] = v
    [i \in 1..Len(group) |-> [key |-> Strip(Lower(group[i].key)), id |-> group[i].id]]

load_mapping_config(config) ==
    NormalizedGroup(config.header_text_mappings)
    \o NormalizedGroup(config.shipping_list_header_map)

load_header_mappings(config) ==
    \* mappings[k.strip().lower()] = v
    [i \in 1..Len(config.header_text_mappings) |->
        [key |-> Lower(Strip(config.header_text_mappings[i].key)),
         id |-> config.header_text_mappings[i].id]]
    \o [i \in 1..Len(config.shipping_list_header_map) |->
        [key |-> Lower(Strip(config.shipping_list_header_map[i].key)),
         id |-> config.shipping_list_header_map[i].id]]

InTable(mapping_dict, text) ==
    \E i \in 1..Len(mapping_dict) : mapping_dict[i].key = text

TableGet(mapping_dict, text) ==
    \* mapping_dict[text], "" when the key is missing
    IF InTable(mapping_dict, text)
    THEN mapping_dict[CHOOSE i \in 1..Len(mapping_dict) :
                          /\ mapping_dict[i].key = text
                          /\ \A j \in (i + 1)..Len(mapping_dict) :
                                 mapping_dict[j].key # text].id
    ELSE ""

DetectText(x) ==
    \* detect_inspectable_columns: str(v).strip(), then
    \* .lower().replace('\n', ' ').replace('  ', ' ')
    HalveSpacePairs(NewlinesToSpaces(Lower(Strip(StrOf(x)))))

ColumnText(x) ==
    \* identify_column_type: str(v).lower().strip().replace('\n', ' ')
    NewlinesToSpaces(Strip(Lower(StrOf(x))))

VerifierText(x) ==
    \* SheetExtractor.extract_sheet_data: str(v).strip(), then .lower()
    Lower(Strip(StrOf(x)))

(***************************************************************************)
(* TotalRowLocator: find_smart_total_row of the services and the first     *)
(* pass of SheetExtractor.extract_sheet_data.                              *)
(***************************************************************************)
BLACKLIST_TERMS ==
    <<<<"b", "u", "f", "f", "a", "l", "o">>, <<"c", "o", "w">>,
      <<"l", "e", "a", "t", "h", "e", "r">>>>

IsText(x) == x.t = "str" /\ x.s # <<>>

TotalWord == <<"t", "o", "t", "a", "l">>

has_blacklist(row) ==
    \E c \in 1..Len(row) :
        /\ IsText(row[c].v)
        /\ \E t \in 1..Len(BLACKLIST_TERMS) :
               Contains(Lower(row[c].v.s), BLACKLIST_TERMS[t])

has_total(row) ==
    \E c \in 1..Len(row) : IsText(row[c].v) /\ Contains(Lower(row[c].v.s), TotalWord)

RECURSIVE formula_score(_, _)
formula_score(row, c) ==
    \* over the cells of the formula view from column c on
    IF c > Len(row) THEN 0
    ELSE (IF ~IsText(row[c].f) THEN 0
          ELSE IF StartsWith(Upper(row[c].f.s), <<"=", "S", "U", "M">>) THEN 2
          ELSE IF Contains(row[c].f.s, <<"+">>) /\ Contains(row[c].f.s, <<"=">>) THEN 1
          ELSE 0)
         + formula_score(row, c + 1)

KeepsLater(current_score, max_score) ==
    \* seeded fault: a row as good as the best so far replaces it
    current_score >= max_score

KeepsBest(current_score, max_score) ==
    \* if current_score > max_score
    current_score > max_score

RECURSIVE SmartFrom(_, _, _, _)
SmartFrom(grid, r, best_row_idx, max_score) ==
    \* the loop over the rows, from row r on
    IF r > Len(grid) THEN best_row_idx
    ELSE IF has_blacklist(grid[r]) \/ ~has_total(grid[r])
    THEN SmartFrom(grid, r + 1, best_row_idx, max_score)
    ELSE LET current_score == 1 + formula_score(grid[r], 1)
         IN IF KeepsBest(current_score, max_score)
            THEN SmartFrom(grid, r + 1, r, current_score)
            ELSE SmartFrom(grid, r + 1, best_row_idx, max_score)

find_smart_total_row(grid) == SmartFrom(grid, 1, -1, 0)

IsColon(c) ==
    \* the colon and the full-width colon U+FF1A, written "U+FF1A" here
    c \in {":", "U+FF1A"}

TotalPatternAt(s, i) ==
    \* total(\s+of)?\s*[:] (or the full-width colon) tried at index i, ignoring case
    /\ i + 4 <= Len(s)
    /\ Lower(SubSeq(s, i, i + 4)) = TotalWord
    /\ LET a == RunEnd(s, i + 5, IsSpace) + 1
           b == RunEnd(s, a + 2, IsSpace) + 1
       IN \/ a <= Len(s) /\ IsColon(s[a])
          \/ /\ a > i + 5
             /\ a + 1 <= Len(s)
             /\ Lower(SubSeq(s, a, a + 1)) = <<"o", "f">>
             /\ b <= Len(s)
             /\ IsColon(s[b])

TotalPattern(x) ==
    \* self.patterns['total_row'].search(str(cell.value).strip())
    /\ Truthy(x)
    /\ \E i \in 1..Len(Strip(StrOf(x))) : TotalPatternAt(Strip(StrOf(x)), i)

VerifierRows == 150

verifier_total_row(grid) ==
    \* data_row_idx: the row of the first cell, row by row, the pattern finds
    LET hit(r) == r <= VerifierRows /\ \E c \in 1..Len(grid[r]) : TotalPattern(grid[r][c].v)
    IN IF \E r \in 1..Len(grid) : hit(r)
       THEN CHOOSE r \in 1..Len(grid) : hit(r) /\ \A q \in 1..(r - 1) : ~hit(q)
       ELSE -1

(***************************************************************************)
(* HeaderDetector: detect_inspectable_columns of the services and the      *)
(* second pass of SheetExtractor.extract_sheet_data.                       *)
(***************************************************************************)
DetectRows == 50

DetectCols == 30

TopRows == 10

Scanned(grid, r) ==
    \* the columns of row r the detector reads: the first 30
    {c \in 1..Len(grid[r]) : c <= DetectCols}

cell_count(grid, r) ==
    Cardinality({c \in Scanned(grid, r) : Truthy(grid[r][c].v)})

match_count(grid, mapping_dict, r) ==
    Cardinality({c \in Scanned(grid, r) :
                    /\ Truthy(grid[r][c].v)
                    /\ InTable(mapping_dict, DetectText(grid[r][c].v))})

sorted_rows(grid) ==
    \* the populated rows among the first 50, widest first; sorted() is
    \* stable, so equally wide rows stay in sheet order
    LET rows == {r \in 1..Len(grid) : r <= DetectRows /\ cell_count(grid, r) > 0}
        before(q, r) ==
            \/ cell_count(grid, q) > cell_count(grid, r)
            \/ cell_count(grid, q) = cell_count(grid, r) /\ q < r
    IN [p \in 1..Cardinality(rows) |->
           CHOOSE r \in rows : Cardinality({q \in rows : before(q, r)}) = p - 1]

QualifiesWithTwo(count, best_match_count) ==
    \* seeded fault: two matches are enough
    count >= 2 /\ count > best_match_count

Qualifies(count, best_match_count) ==
    \* if match_count >= 3 and match_count > best_match_count
    count >= 3 /\ count > best_match_count

RECURSIVE DetectFrom(_, _, _, _, _, _)
DetectFrom(grid, mapping_dict, rows, p, best_row, best_match_count) ==
    \* the loop over sorted_rows[:10], from position p on
    IF p > Len(rows) \/ p > TopRows THEN best_row
    ELSE LET count == match_count(grid, mapping_dict, rows[p])
         IN IF Qualifies(count, best_match_count)
            THEN DetectFrom(grid, mapping_dict, rows, p + 1, rows[p], count)
            ELSE DetectFrom(grid, mapping_dict, rows, p + 1, best_row, best_match_count)

detect_inspectable_columns(grid, mapping_dict) ==
    \* best_row, -1 when no row is settled on
    DetectFrom(grid, mapping_dict, sorted_rows(grid), 1, -1, 0)

row_header_matches(grid, header_mappings, r) ==
    \* the columns of row r whose text is a key of header_mappings
    {c \in 1..Len(grid[r]) :
        /\ Truthy(grid[r][c].v)
        /\ InTable(header_mappings, VerifierText(grid[r][c].v))}

RECURSIVE HeaderFrom(_, _, _, _, _)
HeaderFrom(grid, header_mappings, r, header_row_idx, best_match_count) ==
    \* the loop over row_header_matches, whose keys are in sheet order
    IF r > Len(grid) \/ r > VerifierRows THEN header_row_idx
    ELSE LET count == Cardinality(row_header_matches(grid, header_mappings, r))
         IN IF count >= 3 /\ count > best_match_count
            THEN HeaderFrom(grid, header_mappings, r + 1, r, count)
            ELSE HeaderFrom(grid, header_mappings, r + 1, header_row_idx, best_match_count)

verifier_header_row(grid, header_mappings) ==
    HeaderFrom(grid, header_mappings, 1, -1, 0)

RECURSIVE FromTop(_, _, _, _, _)
FromTop(grid, r, row_idx, col_idx, mapping_dict) ==
    IF r >= row_idx THEN ""
    ELSE LET x == At(grid, r, col_idx).v
             text == ColumnText(x)
         IN IF ~Truthy(x) THEN FromTop(grid, r + 1, row_idx, col_idx, mapping_dict)
            ELSE IF InTable(mapping_dict, text) THEN TableGet(mapping_dict, text)
            ELSE IF Contains(text, TotalWord) /\ Contains(text, <<"v", "a", "l", "u", "e">>)
            THEN "col_amount"
            ELSE IF Contains(text, <<"a", "m", "o", "u", "n", "t">>) THEN "col_amount"
            ELSE FromTop(grid, r + 1, row_idx, col_idx, mapping_dict)

FurthestHeader(grid, row_idx, col_idx, mapping_dict) ==
    \* seeded fault: the walk starts at row 1 and goes down, so the header
    \* farthest from the data row wins
    FromTop(grid, 1, row_idx, col_idx, mapping_dict)

RECURSIVE identify_column_type(_, _, _, _)
identify_column_type(grid, row_idx, col_idx, mapping_dict) ==
    \* the walk upward from row_idx - 1 to row 1; "" for None
    IF row_idx <= 1 THEN ""
    ELSE LET x == At(grid, row_idx - 1, col_idx).v
             text == ColumnText(x)
         IN IF ~Truthy(x)
            THEN identify_column_type(grid, row_idx - 1, col_idx, mapping_dict)
            ELSE IF InTable(mapping_dict, text) THEN TableGet(mapping_dict, text)
            ELSE IF Contains(text, TotalWord) /\ Contains(text, <<"v", "a", "l", "u", "e">>)
            THEN "col_amount"
            ELSE IF Contains(text, <<"a", "m", "o", "u", "n", "t">>) THEN "col_amount"
            ELSE identify_column_type(grid, row_idx - 1, col_idx, mapping_dict)

(***************************************************************************)
(* The locators and detectors called on one sheet.  The alias table is the *)
(* one of AliasConfig; the sheets are the grids of up to MaxRows rows of   *)
(* RowPool.                                                                *)
(***************************************************************************)
Alias(key, id) == [key |-> key, id |-> id]

AliasConfig ==
    [header_text_mappings |->
        <<Alias(<<"D", "e", "s", "c", "r", "i", "p", "t", "i", "o", "n">>, "col_desc"),
          Alias(<<"Q", "u", "a", "n", "t", "i", "t", "y">>, "col_qty_sf"),
          Alias(<<"U", "n", "i", "t", " ", "P", "r", "i", "c", "e">>, "col_unit_price"),
          Alias(<<"A", "m", "o", "u", "n", "t">>, "col_amount")>>,
     shipping_list_header_map |->
        <<Alias(<<"P", "a", "l", "l", "e", "t", "s">>, "col_pallet_count")>>]

mapping_dict_loaded ==
    \* mapping_dict = load_mapping_config() of the services
    load_mapping_config(AliasConfig)

header_mappings_loaded ==
    \* self.header_mappings of the sheet verifier's SheetExtractor
    load_header_mappings(AliasConfig)

TextCell(s) == Plain(StrVal(s))

NumberCell(n) == Plain(NumVal(n))

SumCell(n) ==
    \* a cell holding =SUM(B2:B8), whose cached value is n
    Cell(NumVal(n), StrVal(<<"=", "S", "U", "M", "(", "B", "2", ":", "B", "8", ")">>))

AddCell(n) ==
    \* a cell holding =B2+B3, whose cached value is n
    Cell(NumVal(n), StrVal(<<"=", "B", "2", "+", "B", "3">>))

LabelRow == <<TextCell(<<"T", "o", "t", "a", "l", ":">>), NumberCell(100), NumberCell(5005)>>

SumRow == <<TextCell(<<"T", "O", "T", "A", "L">>), SumCell(100), NumberCell(5005)>>

TwoSumRow ==
    <<TextCell(<<"T", "o", "t", "a", "l", " ", "o", "f", " ", ":">>), SumCell(100), SumCell(5005)>>

AddRow == <<TextCell(<<"S", "u", "b", "t", "o", "t", "a", "l">>), AddCell(7)>>

ProductRow ==
    \* a product line that mentions a total
    <<TextCell(<<"T", "o", "t", "a", "l", ":">>),
      TextCell(<<"C", "o", "w", " ", "L", "e", "a", "t", "h", "e", "r">>), SumCell(100)>>

ProductRowTurned ==
    <<TextCell(<<"B", "U", "F", "F", "A", "L", "O">>),
      TextCell(<<"t", "o", "t", "a", "l", " ", ":">>), NumberCell(40)>>

TwoHeaders ==
    <<TextCell(<<"N", "o", ".">>), TextCell(<<"Q", "u", "a", "n", "t", "i", "t", "y">>),
      TextCell(<<"A", "m", "o", "u", "n", "t">>)>>

ThreeHeaders ==
    <<TextCell(<<"D", "e", "s", "c", "r", "i", "p", "t", "i", "o", "n">>),
      TextCell(<<"Q", "u", "a", "n", "t", "i", "t", "y">>),
      TextCell(<<"A", "m", "o", "u", "n", "t">>)>>

ThreeHeadersWide ==
    <<TextCell(<<"N", "o", ".">>),
      TextCell(<<"D", "E", "S", "C", "R", "I", "P", "T", "I", "O", "N">>),
      TextCell(<<" ", "q", "u", "a", "n", "t", "i", "t", "y", " ">>),
      TextCell(<<"A", "m", "o", "u", "n", "t">>),
      TextCell(<<"R", "e", "m", "a", "r", "k", "s">>)>>

FourHeaders ==
    <<TextCell(<<"D", "e", "s", "c", "r", "i", "p", "t", "i", "o", "n">>),
      TextCell(<<"Q", "u", "a", "n", "t", "i", "t", "y">>),
      TextCell(<<"U", "n", "i", "t", " ", "P", "r", "i", "c", "e">>),
      TextCell(<<"A", "m", "o", "u", "n", "t">>)>>

RowPool ==
    {<<>>, LabelRow, SumRow, TwoSumRow, AddRow, ProductRow, ProductRowTurned,
     TwoHeaders, ThreeHeaders, ThreeHeadersWide, FourHeaders}

MaxRows == 2

Grids == UNION {[1..n -> RowPool] : n \in 1..MaxRows}

InitLocate ==
    /\ folder = <<>>
    /\ master_path = FALSE
    /\ masterFile = NoTable
    /\ RunInit
    /\ hist = NoHist
    /\ gui = NoGui
    /\ vf = NoVf
    /\ cmp = NoCmp
    /\ call \in [fn : {""}, arg : Grids, ret : {<<>>}]

Returns(fn, value) ==
    /\ call.fn = ""
    /\ call' = [call EXCEPT !.fn = fn, !.ret = <<value>>]
    /\ UNCHANGED <<folder, masterFile, master_path, runVars, hist, gui, vf, cmp>>

FindSmartTotalRow ==
    Returns("find_smart_total_row", find_smart_total_row(call.arg))

DetectInspectableColumns ==
    Returns("detect_inspectable_columns",
            detect_inspectable_columns(call.arg, mapping_dict_loaded))

ExtractSheetData ==
    \* the two passes of SheetExtractor.extract_sheet_data
    Returns("extract_sheet_data",
            [row_found |-> verifier_total_row(call.arg),
             header_row |-> verifier_header_row(call.arg, header_mappings_loaded)])

NextLocate ==
    \/ FindSmartTotalRow
    \/ DetectInspectableColumns
    \/ ExtractSheetData

SpecLocate == InitLocate /\ [][NextLocate]_vars

(***************************************************************************)
(* The file name resolvers called on one name: parse_filename of the       *)
(* services, parse_filename of src/extract_invoice_data.py and             *)
(* parse_filename_for_id of the sheet verifier.  The known identifiers are *)
(* a sequence: parse_filename_for_id walks the list in its order (the rows *)
(* of the master list), the other two sort a set of them by length.        *)
(***************************************************************************)
IsUpperLetter(c) == c \in SeqRange(UpperLetters)

SimpleMatchAt(s, i, Letter(_)) ==
    \* ([A-Z]+[-_]?\d+) tried at index i, Letter saying what [A-Z] accepts:
    \* the index of the last character matched, 0 when there is no match
    IF i > Len(s) \/ ~Letter(s[i]) THEN 0
    ELSE LET r1 == RunEnd(s, i, Letter)
             d0 == IF r1 + 2 <= Len(s) /\ IsSep(s[r1 + 1]) /\ IsDigit(s[r1 + 2])
                   THEN r1 + 2 ELSE r1 + 1
         IN IF d0 <= Len(s) /\ IsDigit(s[d0]) THEN RunEnd(s, d0, IsDigit) ELSE 0

RECURSIVE LegacyFindAll(_, _)
LegacyFindAll(s, i) ==
    \* re.findall(r'([A-Z]+[-_]?\d+)', name, re.IGNORECASE)
    IF i > Len(s) THEN <<>>
    ELSE IF SimpleMatchAt(s, i, IsLetter) = 0 THEN LegacyFindAll(s, i + 1)
    ELSE <<SubSeq(s, i, SimpleMatchAt(s, i, IsLetter))>>
         \o LegacyFindAll(s, SimpleMatchAt(s, i, IsLetter) + 1)

legacy_parse_filename(name, known_ids) ==
    \* src/extract_invoice_data.py: the set of identifiers the call can return
    IF LongestKnown(name, known_ids) # {} THEN LongestKnown(name, known_ids)
    ELSE IF ValidCandidates(LegacyFindAll(name, 1)) = <<>> THEN {NoId}
    ELSE {MaxByLen(ValidCandidates(LegacyFindAll(name, 1)))}

RECURSIVE SearchFrom(_, _)
SearchFrom(s, i) ==
    \* re.search(r'([A-Z]+[-_]?\d+)', filename): the leftmost match, NoId for None
    IF i > Len(s) THEN NoId
    ELSE IF SimpleMatchAt(s, i, IsUpperLetter) = 0 THEN SearchFrom(s, i + 1)
    ELSE SubSeq(s, i, SimpleMatchAt(s, i, IsUpperLetter))

parse_filename_for_id(filename, id_list) ==
    \* the first identifier of the list the name contains, else the regex
    IF \E k \in 1..Len(id_list) : Contains(filename, id_list[k])
    THEN id_list[CHOOSE k \in 1..Len(id_list) :
                        /\ Contains(filename, id_list[k])
                        /\ \A j \in 1..(k - 1) : ~Contains(filename, id_list[j])]
    ELSE SearchFrom(filename, 1)

NamePool ==
    {<<"C", "o", "p", "y", "_", "o", "f", "_", "I", "N", "V", "-", "1", "0", "_", "f", "i", "n", "a", "l", ".", "x", "l", "s", "x">>,
     <<"R", "E", "V", "2", "_", "A", "B", "C", "-", "2", "0", "0", "1", ".", "x", "l", "s", "x">>,
     <<"i", "n", "v", "-", "1", " ", "v", "2", ".", "x", "l", "s", "x">>,
     <<"V", "2", "_", "P", "A", "R", "T", "3", ".", "x", "l", "s", "x">>,
     <<"a", "b", "c", "2", "0", "0", "1", "b", "_", "I", "N", "V", "-", "1", "0", ".", "x", "l", "s">>,
     <<"n", "o", "t", "e", "s", ".", "x", "l", "s", "x">>,
     <<"X", "Y", "Z", "-", "9", "_", "I", "N", "V", "-", "1", ".", "x", "l", "s", "x">>,
     <<"a", "b", "1", "_", "I", "N", "V", "-", "1", "0", ".", "x", "l", "s", "x">>}

IdPool ==
    {<<"I", "N", "V", "-", "1">>,
     <<"I", "N", "V", "-", "1", "0">>,
     <<"A", "B", "C", "-", "2", "0", "0", "1">>,
     <<"X", "Y", "Z", "-", "9">>}

MaxKnown == 2

KnownLists ==
    \* the identifier column of a master list, without repetition
    {ks \in UNION {[1..n -> IdPool] : n \in 0..MaxKnown} :
        \A i, j \in 1..Len(ks) : i # j => ks[i] # ks[j]}

InitResolve ==
    /\ folder = <<>>
    /\ master_path = FALSE
    /\ masterFile = NoTable
    /\ RunInit
    /\ hist = NoHist
    /\ gui = NoGui
    /\ vf = NoVf
    /\ cmp = NoCmp
    /\ call \in [fn : {""}, arg : [name : NamePool, known : KnownLists], ret : {<<>>}]

ParseFilename ==
    \E id \in parse_filename(call.arg.name, SeqRange(call.arg.known)) :
        Returns("parse_filename", id)

LegacyParseFilename ==
    \E id \in legacy_parse_filename(call.arg.name, SeqRange(call.arg.known)) :
        Returns("legacy_parse_filename", id)

ParseFilenameForId ==
    Returns("parse_filename_for_id",
            parse_filename_for_id(call.arg.name, call.arg.known))

NextResolve ==
    \/ ParseFilename
    \/ LegacyParseFilename
    \/ ParseFilenameForId

SpecResolve == InitResolve /\ [][NextResolve]_vars

(***************************************************************************)
(* One consultation of the alias table: the text of a cell looked up as    *)
(* each reader of the table does it, on a table loaded from one of         *)
(* ConfigPool.                                                             *)
(***************************************************************************)
Group1Pool ==
    {<<>>,
     <<Alias(<<"U", "n", "i", "t", " ", "P", "r", "i", "c", "e">>, "col_unit_price")>>,
     <<Alias(<<"U", "n", "i", "t", " ", " ", "P", "r", "i", "c", "e">>, "col_unit_price")>>,
     <<Alias(<<" ", "A", "M", "O", "U", "N", "T", " ">>, "col_amount"), Alias(<<"U", "n", "i", "t", " ", "P", "r", "i", "c", "e">>, "col_unit_price")>>}

Group2Pool ==
    {<<>>,
     <<Alias(<<"u", "n", "i", "t", " ", "p", "r", "i", "c", "e">>, "col_price")>>,
     <<Alias(<<"A", "m", "o", "u", "n", "t">>, "col_total")>>}

ConfigPool ==
    [header_text_mappings : Group1Pool, shipping_list_header_map : Group2Pool]

CellTextPool ==
    {<<"U", "n", "i", "t", " ", "P", "r", "i", "c", "e">>,
     <<" ", "u", "n", "i", "t", " ", "p", "r", "i", "c", "e", " ">>,
     <<"U", "N", "I", "T", "\n", "P", "R", "I", "C", "E">>,
     <<"U", "n", "i", "t", " ", " ", " ", "P", "r", "i", "c", "e">>,
     <<"U", "n", "i", "t", " ", " ", "P", "r", "i", "c", "e">>,
     <<"A", "m", "o", "u", "n", "t">>,
     <<"R", "e", "m", "a", "r", "k", "s">>}

InitAlias ==
    /\ folder = <<>>
    /\ master_path = FALSE
    /\ masterFile = NoTable
    /\ RunInit
    /\ hist = NoHist
    /\ gui = NoGui
    /\ vf = NoVf
    /\ cmp = NoCmp
    /\ call \in [fn : {""}, arg : [config : ConfigPool, text : CellTextPool],
                  ret : {<<>>}]

DetectLookup ==
    \* detect_inspectable_columns: mapping_dict[text_lower]
    Returns("detect_inspectable_columns",
            TableGet(load_mapping_config(call.arg.config),
                     DetectText(StrVal(call.arg.text))))

ColumnLookup ==
    \* identify_column_type: mapping_dict[text]
    Returns("identify_column_type",
            TableGet(load_mapping_config(call.arg.config),
                     ColumnText(StrVal(call.arg.text))))

HeaderLookup ==
    \* SheetExtractor.extract_sheet_data: self.header_mappings[val_str.lower()]
    Returns("extract_sheet_data",
            TableGet(load_header_mappings(call.arg.config),
                     VerifierText(StrVal(call.arg.text))))

NextAlias ==
    \/ DetectLookup
    \/ ColumnLookup
    \/ HeaderLookup

SpecAlias == InitAlias /\ [][NextAlias]_vars

(***************************************************************************)
(* One workbook from its cells to its verified record.  The Invoice sheet  *)
(* is a grid; what excel_data_extractor reads of it is the row             *)
(* find_smart_total_row returns, each non-empty cell typed by              *)
(* identify_column_type.  The master list is a sheet of named columns,     *)
(* which MasterDataService._map_columns maps to the check keys through the *)
(* same alias table.  Whole numbers of the grid are carried on as          *)
(* hundredths.                                                             *)
(***************************************************************************)
TypedCellAsWritten(grid, r, c) ==
    \* seeded fault: the cell is read from the workbook loaded with
    \* data_only=False, where a formula cell holds its formula
    LET t == identify_column_type(grid, r, c, mapping_dict_loaded)
    IN [ctype |-> IF t = "" THEN "none" ELSE t,
        kind |-> IF grid[r][c].f.t = "num" THEN "num" ELSE "text",
        n |-> IF grid[r][c].f.t = "num" THEN 100 * grid[r][c].f.n ELSE 0]

TypedCell(grid, r, c) ==
    \* one cell of the total row as the invoice extraction sees it
    LET t == identify_column_type(grid, r, c, mapping_dict_loaded)
    IN [ctype |-> IF t = "" THEN "none" ELSE t,
        kind |-> IF grid[r][c].v.t = "num" THEN "num" ELSE "text",
        n |-> IF grid[r][c].v.t = "num" THEN 100 * grid[r][c].v.n ELSE 0]

RECURSIVE TypedCells(_, _, _)
TypedCells(grid, r, c) ==
    \* for cell in row_cells: if cell.value is not None
    IF c > Len(grid[r]) THEN <<>>
    ELSE (IF grid[r][c].v.t = "none" THEN <<>> ELSE <<TypedCell(grid, r, c)>>)
         \o TypedCells(grid, r, c + 1)

SheetOfGrid(title, grid) ==
    LET data_row_idx == find_smart_total_row(grid)
    IN [title |-> title, chart |-> FALSE,
        total_row |-> data_row_idx # -1,
        header_row |-> detect_inspectable_columns(grid, mapping_dict_loaded),
        cells |-> IF data_row_idx = -1 THEN <<>>
                  ELSE TypedCells(grid, data_row_idx, 1)]

known_col_ids ==
    <<Alias(<<"i", "n", "v", "o", "i", "c", "e", "_", "i", "d">>, "invoice_id"), Alias(<<"c", "o", "l", "_", "q", "t", "y", "_", "s", "f">>, "col_qty_sf"),
      Alias(<<"c", "o", "l", "_", "a", "m", "o", "u", "n", "t">>, "col_amount"),
      Alias(<<"c", "o", "l", "_", "p", "a", "l", "l", "e", "t", "_", "c", "o", "u", "n", "t">>, "col_pallet_count"),
      Alias(<<"c", "o", "l", "_", "q", "t", "y", "_", "p", "c", "s">>, "col_qty_pcs"), Alias(<<"c", "o", "l", "_", "n", "e", "t">>, "col_net"),
      Alias(<<"c", "o", "l", "_", "g", "r", "o", "s", "s">>, "col_gross"), Alias(<<"c", "o", "l", "_", "c", "b", "m">>, "col_cbm")>>

ColumnId(c, mapping_dict, col_map) ==
    \* the key one column of the master list is stored under, "" for none
    LET cl == Strip(Lower(c))
    IN IF InTable(mapping_dict, cl)
       THEN IF TableGet(mapping_dict, cl) = "col_inv_no" THEN "invoice_id"
            ELSE TableGet(mapping_dict, cl)
       ELSE IF InTable(known_col_ids, cl) THEN TableGet(known_col_ids, cl)
       ELSE IF /\ Contains(cl, <<"i", "n", "v", "o", "i", "c", "e">>) \/ Contains(cl, <<"i", "d">>)
               /\ ~Contains(cl, <<"d", "i", "f", "f">>)
               /\ ~Contains(cl, <<"v", "e", "r", "i", "f", "y">>)
               /\ "invoice_id" \notin DOMAIN col_map
       THEN "invoice_id"
       ELSE ""

RECURSIVE MapFrom(_, _, _, _)
MapFrom(columns, mapping_dict, i, col_map) ==
    \* self.col_map after the columns from i on: key -> index of the column
    IF i > Len(columns) THEN col_map
    ELSE LET id == ColumnId(columns[i], mapping_dict, col_map)
         IN MapFrom(columns, mapping_dict, i + 1,
                    IF id = "" THEN col_map
                    ELSE [k \in DOMAIN col_map \cup {id} |->
                             IF k = id THEN i ELSE col_map[k]])

map_columns(columns, mapping_dict) ==
    MapFrom(columns, mapping_dict, 1, [k \in {} |-> 0])

TableOf(columns, lines) ==
    \* the master list as MasterDataService holds it after load(): lines
    \* are the rows of the file, each one value per column, the identifier
    \* a text and the others whole numbers
    LET col_map == map_columns(columns, mapping_dict_loaded)
    IN [present |-> TRUE,
        id_col |-> "invoice_id" \in DOMAIN col_map,
        cols |-> DOMAIN col_map \cap Keys,
        rows |-> [r \in 1..Len(lines) |->
                    MasterRow(IF "invoice_id" \in DOMAIN col_map
                              THEN lines[r][col_map["invoice_id"]] ELSE NoId,
                              [k \in Keys |->
                                  IF k \in DOMAIN col_map
                                  THEN 100 * lines[r][col_map[k]] ELSE None])]]

BlankRows(n) == [i \in 1..n |-> <<>>]

QuantityAmount ==
    <<Plain(Blank), TextCell(<<"Q", "u", "a", "n", "t", "i", "t", "y">>), TextCell(<<"A", "m", "o", "u", "n", "t">>)>>

AmountQuantity ==
    <<Plain(Blank), TextCell(<<"A", "m", "o", "u", "n", "t">>), TextCell(<<"Q", "u", "a", "n", "t", "i", "t", "y">>)>>

QtyAmount ==
    \* 'Qty' is not in the alias table
    <<Plain(Blank), TextCell(<<"Q", "t", "y">>), TextCell(<<"A", "m", "o", "u", "n", "t">>)>>

HeaderPool == {QuantityAmount, AmountQuantity, QtyAmount, ThreeHeaders}

UncachedSum ==
    \* a SUM formula no spreadsheet program has computed: the workbook
    \* loaded with data_only=True holds None
    Cell(Blank, StrVal(<<"=", "S", "U", "M", "(", "B", "2", ":", "B", "8", ")">>))

TotalLine(quantity, amount) ==
    <<TextCell(<<"T", "o", "t", "a", "l", ":">>), quantity, NumberCell(amount)>>

TotalPool ==
    {TotalLine(SumCell(100), 5005), TotalLine(NumberCell(100), 5005),
     TotalLine(SumCell(100), 5004), TotalLine(SumCell(101), 5005),
     TotalLine(UncachedSum, 5005)}

ScenarioGrid(headers, total) ==
    \* the headers in row 9, the total in row 10
    BlankRows(8) \o <<headers, total>>

ScenarioGrids == {ScenarioGrid(h, t) : h \in HeaderPool, t \in TotalPool}

ScenarioId == <<"I", "N", "V", "-", "1">>

ScenarioColumns == <<<<"I", "n", "v", "o", "i", "c", "e", " ", "N", "o">>, <<"Q", "u", "a", "n", "t", "i", "t", "y">>, <<"A", "m", "o", "u", "n", "t">>>>

ScenarioMasters ==
    {TableOf(ScenarioColumns, <<<<ScenarioId, q, 5005>>>>) : q \in {100, 101}}

InitScenario ==
    /\ folder = <<>>
    /\ master_path = TRUE
    /\ masterFile \in ScenarioMasters
    /\ df = NoTable
    /\ pc = "workbook"
    /\ master_ids = {}
    /\ scanned_files = <<>>
    /\ matched = <<>>
    /\ rejected = <<>>
    /\ failed_parse = <<>>
    /\ missing_ids = {}
    /\ final_results = <<>>
    /\ reports = NoReports
    /\ hist = NoHist
    /\ gui = NoGui
    /\ vf = NoVf
    /\ cmp = NoCmp
    /\ call \in [fn : {""}, arg : ScenarioGrids, ret : {<<>>}]

ExtractWorkbook ==
    \* excel_data_extractor on the workbook whose only sheet is the grid,
    \* the record's identifier taken from the file name
    /\ pc = "workbook"
    /\ final_results' =
          <<Rec(<<"I", "N", "V", "-", "1", ".", "x", "l", "s", "x">>,
                [loadable |-> TRUE,
                 sheets |-> <<SheetOfGrid(<<"I", "n", "v", "o", "i", "c", "e">>, call.arg)>>],
                ScenarioId)>>
    /\ call' = [call EXCEPT !.fn = "excel_data_extractor"]
    /\ pc' = "service"
    /\ UNCHANGED <<folder, masterFile, master_path, df, master_ids,
                   scanned_files, matched, rejected, failed_parse, missing_ids,
                   reports, hist, gui, vf, cmp>>

NextScenario ==
    \/ ExtractWorkbook
    \/ ServiceLoad
    \/ ServiceVerify

SpecScenario == InitScenario /\ [][NextScenario]_vars

(***************************************************************************)
(* NumericCleaner: the number read from the text of a cell.  The result is *)
(* carried in hundredths; the texts of the model have at most two decimal  *)
(* places.  regex_extract_number (core/regex_utils.py) is what the         *)
(* services call, on the text as it stands; _clean_number is the strict    *)
(* cleaner of the sheet verifier and get_val the one of its master loader. *)
(***************************************************************************)
DigitValue(c) == (CHOOSE i \in 1..Len(DigitChars) : DigitChars[i] = c) - 1

RECURSIVE Whole(_)
Whole(ds) ==
    \* int(ds) of a run of digits
    IF ds = <<>> THEN 0
    ELSE 10 * Whole(SubSeq(ds, 1, Len(ds) - 1)) + DigitValue(ds[Len(ds)])

Hundredths(int_part, frac_part) ==
    \* float(int_part + '.' + frac_part) in hundredths
    100 * Whole(int_part)
    + (IF Len(frac_part) = 0 THEN 0
       ELSE IF Len(frac_part) = 1 THEN 10 * DigitValue(frac_part[1])
       ELSE Whole(SubSeq(frac_part, 1, 2)))

TakesFirstToken(text, i) ==
    \* the match of (\d+(?:\.\d+)?) that starts at the digit text[i]
    LET j == RunEnd(text, i, IsDigit)
        k == IF j + 2 <= Len(text) /\ text[j + 1] = "." /\ IsDigit(text[j + 2])
             THEN RunEnd(text, j + 2, IsDigit) ELSE j
    IN Hundredths(SubSeq(text, i, j), SubSeq(text, j + 2, k))

regex_extract_number(text, default) ==
    \* the first number of the text, default when it holds no digit
    IF \A i \in 1..Len(text) : ~IsDigit(text[i]) THEN default
    ELSE TakesFirstToken(text,
             CHOOSE i \in 1..Len(text) :
                 IsDigit(text[i]) /\ \A j \in 1..(i - 1) : ~IsDigit(text[j]))

RECURSIVE Replace(_, _)
Replace(s, old) ==
    \* str.replace(old, '')
    IF Len(s) < Len(old) THEN s
    ELSE IF SubSeq(s, 1, Len(old)) = old
    THEN Replace(SubSeq(s, Len(old) + 1, Len(s)), old)
    ELSE <<s[1]>> \o Replace(Tail(s), old)

IsFloatText(s) ==
    \* float(s) accepts s: digits with at most one point, an optional sign
    \* in front (the texts of the model hold no exponent and no underscore)
    LET body == IF s # <<>> /\ s[1] \in {"+", "-"} THEN Tail(s) ELSE s
    IN /\ \E i \in 1..Len(body) : IsDigit(body[i])
       /\ \A i \in 1..Len(body) : IsDigit(body[i]) \/ body[i] = "."
       /\ Cardinality({i \in 1..Len(body) : body[i] = "."}) <= 1

FloatOf(s) ==
    \* float(s) of a text without a sign, in hundredths
    LET j == RunEnd(s, 1, IsDigit)
    IN Hundredths(SubSeq(s, 1, j), SubSeq(s, j + 2, Len(s)))

strict_clean_number(val) ==
    \* SheetExtractor._clean_number on a text: the value, or the
    \* DataExtractionError raised
    LET s_val == Strip(val)
        clean == Strip(Replace(Replace(Replace(s_val, <<",">>), <<"$">>),
                               <<"U", "S", "D">>))
    IN IF s_val = <<>> THEN [raised |-> FALSE, v |-> None]
       ELSE IF s_val \in {<<"-">>, <<".">>} THEN [raised |-> FALSE, v |-> 0]
       ELSE IF IsFloatText(clean) /\ clean[1] \notin {"+", "-"}
       THEN [raised |-> FALSE, v |-> FloatOf(clean)]
       ELSE [raised |-> TRUE, v |-> None]

get_val(val) ==
    \* MasterLoader.load.get_val on a text
    regex_extract_number(Strip(Replace(Replace(val, <<",">>), <<"$">>)), 0)

get_float(value) ==
    \* extract_contract_data.get_float on a text
    IF value # <<>> THEN regex_extract_number(value, 0) ELSE 0

get_num_text(v) ==
    \* get_num of verify_and_update on a text
    IF Strip(v) = <<>> THEN None ELSE regex_extract_number(v, None)

Prefixes == {<<>>, <<"$">>, <<"U", "S", "D", " ">>}

WholeParts == {<<"1", ",", "2", "3", "4">>, <<"1", "2", "3", "4">>, <<"1", "2">>, <<"0">>, <<"1", "2", ",", "3", "4", "5">>}

DecimalParts == {<<>>, <<".", "5", "0">>, <<".", "5">>}

Suffixes == {<<>>, <<" ", "k", "g">>}

NumberTexts ==
    {p \o w \o d \o s : p \in Prefixes, w \in WholeParts, d \in DecimalParts,
                        s \in Suffixes}
    \cup {<<>>, <<"-">>, <<"N", "/", "A">>}

InitClean ==
    /\ folder = <<>>
    /\ master_path = FALSE
    /\ masterFile = NoTable
    /\ RunInit
    /\ hist = NoHist
    /\ gui = NoGui
    /\ vf = NoVf
    /\ cmp = NoCmp
    /\ call \in [fn : {""}, arg : NumberTexts, ret : {<<>>}]

RegexExtractNumber ==
    \* the services' extraction of a text cell of a total row
    Returns("regex_extract_number", [raised |-> FALSE, v |-> get_float(call.arg)])

GetNum ==
    Returns("get_num", [raised |-> FALSE, v |-> get_num_text(call.arg)])

CleanNumber == Returns("_clean_number", strict_clean_number(call.arg))

GetVal == Returns("get_val", [raised |-> FALSE, v |-> get_val(call.arg)])

NextClean ==
    \/ RegexExtractNumber
    \/ GetNum
    \/ CleanNumber
    \/ GetVal

SpecClean == InitClean /\ [][NextClean]_vars

(***************************************************************************)
(* identify_column_type called on one cell of a sheet.  The sheets have    *)
(* two columns: column 1 is drawn from HeaderCells, column 2 holds         *)
(* 'Pallets' in every row.                                                 *)
(***************************************************************************)
HeaderCells ==
    {Plain(Blank), NumberCell(0), NumberCell(5005),
     TextCell(<<"Q", "u", "a", "n", "t", "i", "t", "y">>), TextCell(<<" ", "A", "M", "O", "U", "N", "T", " ">>),
     TextCell(<<"U", "n", "i", "t", "\n", "P", "r", "i", "c", "e">>),
     TextCell(<<"T", "o", "t", "a", "l", " ", "V", "a", "l", "u", "e", " ", "(", "U", "S", "D", ")">>), TextCell(<<"N", "e", "t", " ", "A", "m", "o", "u", "n", "t">>),
     TextCell(<<"C", "o", "w", " ", "L", "e", "a", "t", "h", "e", "r">>)}

MaxAbove == 3

ColumnGrids ==
    UNION {[1..n -> {<<c, TextCell(<<"P", "a", "l", "l", "e", "t", "s">>)>> : c \in HeaderCells}] :
              n \in 0..MaxAbove}

InitColumn ==
    /\ folder = <<>>
    /\ master_path = FALSE
    /\ masterFile = NoTable
    /\ RunInit
    /\ hist = NoHist
    /\ gui = NoGui
    /\ vf = NoVf
    /\ cmp = NoCmp
    /\ call \in [fn : {""}, arg : ColumnGrids, ret : {<<>>}]

IdentifyColumnType ==
    \* one call for a cell of a row below the headers, in either column
    \E row_idx \in 1..(Len(call.arg) + 1) : \E col_idx \in 1..2 :
        Returns("identify_column_type",
                [row_idx |-> row_idx, col_idx |-> col_idx,
                 c_type |-> identify_column_type(call.arg, row_idx, col_idx,
                                                 mapping_dict_loaded)])

NextColumn == IdentifyColumnType

SpecColumn == InitColumn /\ [][NextColumn]_vars

(***************************************************************************)
(* PipelineService.run called again and again on one folder.  Between two  *)
(* runs a file may be put into the folder or taken out of it; the reports  *)
(* directory and the master file stay as the earlier run left them, and    *)
(* each run has a PipelineService of its own.  hist.calls counts the runs  *)
(* that are over.                                                          *)
(***************************************************************************)
MaxRuns == 2

OneFileApart(f, g) ==
    \* g is f with one file put in or taken out
    \/ /\ Len(g) = Len(f) + 1
       /\ \E k \in 1..Len(g) :
              f = SubSeq(g, 1, k - 1) \o SubSeq(g, k + 1, Len(g))
    \/ /\ Len(f) = Len(g) + 1
       /\ \E k \in 1..Len(f) :
              g = SubSeq(f, 1, k - 1) \o SubSeq(f, k + 1, Len(f))

InitRerun ==
    /\ folder \in Folders
    /\ master_path \in BOOLEAN
    /\ masterFile \in (IF master_path THEN ServicePool ELSE {NoTable})
    /\ RunInit
    /\ hist = NoHist
    /\ call = NoCall
    /\ gui = NoGui
    /\ vf = NoVf
    /\ cmp = NoCmp

RunAgain ==
    \* the next run starts, on the folder as it is by then
    /\ pc \in {"done", "raised"}
    /\ hist.calls + 1 < MaxRuns
    /\ \E g \in Folders :
          /\ g = folder \/ OneFileApart(folder, g)
          /\ folder' = g
    /\ hist' = [hist EXCEPT !.calls = @ + 1]
    /\ df' = NoTable
    /\ pc' = "start"
    /\ master_ids' = {}
    /\ scanned_files' = <<>>
    /\ matched' = <<>>
    /\ rejected' = <<>>
    /\ failed_parse' = <<>>
    /\ missing_ids' = {}
    /\ final_results' = <<>>
    /\ UNCHANGED <<call, masterFile, master_path, reports, gui, vf, cmp>>

NextRerun ==
    \/ RunLoadMaster
    \/ RunScan
    \/ RunReconcile
    \/ RunReport
    \/ RunExtract
    \/ RunExtractRaises
    \/ RunWriteJson
    \/ RunVerify
    \/ RunAgain

SpecRerun == InitRerun /\ [][NextRerun]_vars

(***************************************************************************)
(* Properties.                                                             *)
(***************************************************************************)
Verified(table) == table.present /\ table.id_col

PackingNetOverGross(item) ==
    \* the record's packing-list extraction holds a net weight greater than
    \* its gross weight, as numbers of hundredths
    /\ item.sheets["PackingList"].vals["col_net"] >= 0
    /\ item.sheets["PackingList"].vals["col_gross"] >= 0
    /\ item.sheets["PackingList"].vals["col_net"]
          > item.sheets["PackingList"].vals["col_gross"]

HasLogicError(report) ==
    \E l \in 1..Len(report) : report[l].kind = "logic"

\* C1: after verify_and_update every record with an identifier is 'Missing
\* from Master' exactly when no master row has its identifier, otherwise
\* 'Verified' exactly when every per-sheet comparison passed and net weight
\* is not above gross weight, and 'Mismatch' exactly when one of them failed.
C1_StatusTrichotomy ==
    (hist.calls >= 1 /\ Verified(df)) =>
        \A i \in 1..Len(final_results) :
            LET item == final_results[i]
                r == FirstRow(df.rows, item.invoice_id)
                passed == /\ all_match(item, df.rows[r], df.cols)
                          /\ ~PackingNetOverGross(item)
            IN item.invoice_id # NoId =>
                  /\ (item.status = "Missing from Master") <=> (r = 0)
                  /\ r # 0 => /\ (item.status = "Verified") <=> passed
                              /\ (item.status = "Mismatch") <=> ~passed

\* C4: a field comparison flags a mismatch exactly when the extracted and
\* the master value differ by more than 0.01, so 100.00 against 100.01 is
\* not flagged and 100.00 against 100.02 is.
C4_ToleranceBoundary ==
    cmp.flagged # <<>> =>
        (cmp.flagged[1] <=> (cmp.extracted - cmp.master > 1
                             \/ cmp.master - cmp.extracted > 1))

\* C9: a second verify_and_update on the same records and the same master
\* leaves the DIFF_* values, VERIFY STATE and every record's status as the
\* first left them.
C9_VerifyIdempotent ==
    hist.calls >= 2 => Outputs(df, final_results) = hist.prev[1]

C9_Witness ==
    /\ hist.calls = 2
    /\ \E r \in 1..Len(df.rows) :
          /\ df.rows[r].verify = <<FALSE>>
          /\ \E k \in Keys : df.rows[r].diff[k] # <<>> /\ df.rows[r].diff[k] # <<0>>
    /\ \E i \in 1..Len(final_results) :
          Len(final_results[i].verification_details) = 2

NoNumber(sheet, c) ==
    \* the sheet's total row yields no number for field c: there is no total
    \* row, or no pallet text supplies it and the header has no column for c
    \* or the cell of that column is empty or is text that is no number
    \/ ~sheet.total
    \/ /\ ~(c = "col_pallet_count"
            /\ \E i \in 1..Len(sheet.cols) : sheet.cols[i].kind = "pallets")
       /\ \/ ~sheet.header
          \/ \A i \in 1..Len(sheet.cols) : sheet.cols[i].col_id # c
          \/ \E i \in 1..Len(sheet.cols) :
                /\ sheet.cols[i].col_id = c
                /\ \A j \in (i + 1)..Len(sheet.cols) : sheet.cols[j].col_id # c
                /\ sheet.cols[i].kind \in {"empty", "text", "pallets"}

AfterReconcile == pc \in {"report", "extract", "verify", "done", "raised"}

Paths(list) == {list[i].original_path : i \in 1..Len(list)}

IsPartition(all, m, r, f) ==
    /\ Paths(m) \cup Paths(r) \cup Paths(f) = Paths(all)
    /\ Paths(m) \cap Paths(r) = {}
    /\ Paths(m) \cap Paths(f) = {}
    /\ Paths(r) \cap Paths(f) = {}
    /\ Len(m) + Len(r) + Len(f) = Len(all)

\* C2: reconciliation puts every scanned file in exactly one of matched,
\* rejected and failed_parse, and the missing set is the master identifiers
\* minus the identifiers of the matched files; so does reconcile_invoices.
C2_ReconcilePartition ==
    AfterReconcile =>
        /\ IsPartition(scanned_files, matched, rejected, failed_parse)
        /\ missing_ids = master_ids \ {matched[i].extracted_id : i \in 1..Len(matched)}
        /\ LET old == reconcile_invoices(scanned_files, master_ids)
           IN /\ IsPartition(scanned_files, old.matched, old.rejected, old.failed_parse)
              /\ old.missing = master_ids \ {old.matched[i].extracted_id :
                                                i \in 1..Len(old.matched)}

C2_Witness ==
    /\ pc = "report"
    /\ matched # <<>>
    /\ rejected # <<>> \/ failed_parse # <<>>
    /\ missing_ids # {}
    /\ missing_ids # master_ids

C2_WitnessNoMaster ==
    /\ pc = "report"
    /\ master_ids = {}
    /\ matched # <<>>
    /\ failed_parse # <<>>

\* C3: with a non-empty master identifier set, a scanned file whose name
\* contains a master identifier is resolved to the longest such identifier
\* and is matched, never rejected and never a parse failure.
C3_KnownIdResolved ==
    (AfterReconcile /\ master_ids # {}) =>
        \A i \in 1..Len(scanned_files) :
            LongestKnown(scanned_files[i].original_name, master_ids) # {} =>
                /\ scanned_files[i].extracted_id
                       \in LongestKnown(scanned_files[i].original_name, master_ids)
                /\ scanned_files[i].original_path \in Paths(matched)
                /\ scanned_files[i].original_path
                       \notin Paths(rejected) \cup Paths(failed_parse)

CandidateDiffers(item, row, cols) ==
    \* a number of one of the record's packing candidates differs from the
    \* master's number for the same field by more than 0.01
    \E c \in 1..Len(item.packing_candidates) : \E k \in cols :
        LET v == item.packing_candidates[c].data[k]
            m == row.exp[k]
        IN v >= 0 /\ m >= 0 /\ (v - m > 1 \/ m - v > 1)

\* C6: every sheet matching the PackingList role is extracted and kept as a
\* candidate, the first supplies the flattened values, and a number of any
\* candidate that differs from the master by more than the tolerance makes
\* the record's status Mismatch.
C6_EveryCandidateCompared ==
    (pc = "done" /\ Verified(df)) =>
        \A i \in 1..Len(final_results) :
            LET item == final_results[i]
                wb == folder[matched[i].original_path].wb
                r == FirstRow(df.rows, item.invoice_id)
            IN wb.loadable =>
                  /\ Len(item.packing_candidates)
                         = Cardinality({s \in 1..Len(wb.sheets) :
                                           ~wb.sheets[s].chart
                                           /\ IsPackingTitle(wb.sheets[s].title)})
                  /\ item.packing_candidates # <<>> =>
                         \A k \in {"col_qty_pcs", "col_net", "col_gross", "col_cbm"} :
                             item.flat[k]
                                 = format_val(DictGet(item.packing_candidates[1].data, k))
                  /\ (r # 0 /\ CandidateDiffers(item, df.rows[r], df.cols))
                         => item.status = "Mismatch"

\* C8: writes of the master file are serialized: no two writers are inside a
\* write at once, the editor does not write while a run is in progress, and
\* no write replaces a file another writer changed after the table written
\* was read.
C8_WritesSerialized ==
    /\ Cardinality(gui.writers) <= 1
    /\ ~gui.midrun
    /\ ~gui.stale

\* C7: a failure while extracting one matched file never aborts the run: the
\* run goes on, and once the extraction loop is over the results hold one
\* record per matched file, in matched order.
C7_ExtractionNeverAborts ==
    /\ pc # "raised"
    /\ pc \in {"verify", "done"} =>
          /\ Len(final_results) = Len(matched)
          /\ \A i \in 1..Len(matched) :
                /\ final_results[i].file_name = matched[i].original_name
                /\ final_results[i].invoice_id = matched[i].extracted_id

Mentions(row, term) ==
    \* some cell of the row holds a text that contains the term, whatever
    \* the case of its letters
    \E c \in 1..Len(row) : row[c].v.t = "str" /\ Contains(Lower(row[c].v.s), term)

MentionsBlacklisted(row) ==
    \/ Mentions(row, <<"b", "u", "f", "f", "a", "l", "o">>)
    \/ Mentions(row, <<"c", "o", "w">>)
    \/ Mentions(row, <<"l", "e", "a", "t", "h", "e", "r">>)

Called(fn) == call.fn = fn

Ret == call.ret[1]

\* C11: neither total-row locator (find_smart_total_row of the services,
\* the first pass of SheetExtractor.extract_sheet_data) returns a row in
\* which some cell contains buffalo, cow or leather.
C11_NoBlacklistedTotalRow ==
    /\ Called("find_smart_total_row") /\ Ret # -1
           => ~MentionsBlacklisted(call.arg[Ret])
    /\ Called("extract_sheet_data") /\ Ret.row_found # -1
           => ~MentionsBlacklisted(call.arg[Ret.row_found])

Candidate(row) ==
    \* the row holds a 'total' label and no blacklisted term
    Mentions(row, <<"t", "o", "t", "a", "l">>) /\ ~MentionsBlacklisted(row)

Score(row) == 1 + formula_score(row, 1)

\* C12: find_smart_total_row returns -1 exactly when no row holds a 'total'
\* label without a blacklisted term, and otherwise the first such row, in
\* sheet order, whose score (1, plus 2 per =SUM cell of the formula view,
\* plus 1 per other cell with '=' and '+') is the greatest.
C12_FirstBestScore ==
    Called("find_smart_total_row") =>
        LET rows == {r \in 1..Len(call.arg) : Candidate(call.arg[r])}
        IN /\ Ret = -1 <=> rows = {}
           /\ Ret # -1 =>
                  /\ Ret \in rows
                  /\ \A q \in rows : Score(call.arg[q]) <= Score(call.arg[Ret])
                  /\ \A q \in rows : q < Ret => Score(call.arg[q]) < Score(call.arg[Ret])

C12_Witness ==
    \* a label-only row (score 1) above a row with two sum formulas
    \* (score 5): the second is returned
    /\ Called("find_smart_total_row")
    /\ Len(call.arg) = 2
    /\ Candidate(call.arg[1]) /\ Score(call.arg[1]) = 1
    /\ Candidate(call.arg[2]) /\ Score(call.arg[2]) = 5
    /\ Ret = 2

ServiceMatches(r) == match_count(call.arg, mapping_dict_loaded, r)

VerifierMatches(r) ==
    Cardinality(row_header_matches(call.arg, header_mappings_loaded, r))

\* C13: header detection answers -1 whenever no scanned row has 3 alias
\* matches or more, and the row it answers never has fewer than 3 (so never
\* exactly 2); for detect_inspectable_columns and for the header pass of
\* SheetExtractor.extract_sheet_data.
C13_HeaderNeedsThree ==
    /\ Called("detect_inspectable_columns") =>
           /\ (\A r \in 1..Len(call.arg) : ServiceMatches(r) < 3) => Ret = -1
           /\ Ret # -1 => ServiceMatches(Ret) >= 3
    /\ Called("extract_sheet_data") =>
           /\ (\A r \in 1..Len(call.arg) : VerifierMatches(r) < 3) => Ret.header_row = -1
           /\ Ret.header_row # -1 => VerifierMatches(Ret.header_row) >= 3

C13_Witness ==
    \* the best row of the sheet has exactly 2 alias matches: not found
    /\ Called("detect_inspectable_columns")
    /\ \E r \in 1..Len(call.arg) : ServiceMatches(r) = 2
    /\ \A r \in 1..Len(call.arg) : ServiceMatches(r) <= 2
    /\ Ret = -1

\* C14: when a row among the first 50 has 3 alias matches or more,
\* detect_inspectable_columns returns the row with the most matches, the
\* topmost of them when several rows have as many.
C14_TopmostBestHeader ==
    Called("detect_inspectable_columns") =>
        LET rows == {r \in 1..Len(call.arg) : r <= DetectRows /\ ServiceMatches(r) >= 3}
        IN rows # {} =>
               /\ Ret \in rows
               /\ \A q \in rows : ServiceMatches(q) <= ServiceMatches(Ret)
               /\ \A q \in rows : q < Ret => ServiceMatches(q) < ServiceMatches(Ret)

KnownIn(name, known) ==
    \* the known identifiers that are substrings of the file name
    {id \in SeqRange(known) : Contains(name, id)}

\* C15: whenever a known identifier is a substring of the file name, each
\* resolver returns a known identifier that is a substring of the name and
\* as long as the longest of them, whatever the order of the identifiers.
C15_LongestKnownId ==
    /\ Called("parse_filename") \/ Called("legacy_parse_filename")
           \/ Called("parse_filename_for_id")
    /\ KnownIn(call.arg.name, call.arg.known) # {}
    => /\ Ret \in KnownIn(call.arg.name, call.arg.known)
       /\ \A id \in KnownIn(call.arg.name, call.arg.known) : Len(id) <= Len(Ret)

Shaped(c) ==
    \* letters, an optional separator, digits, optional trailing letters,
    \* with an optional group of letters and a separator in front
    c # <<>> /\ MatchAt(c, 1) = Len(c)

IsNoise(c) ==
    \* the leading run of letters is a noise token
    \E n \in 1..Len(c) :
        /\ SubSeq(c, 1, n) \in noise_prefixes
        /\ n = Len(c) \/ ~IsLetter(c[n + 1])

\* C16: when no known identifier is in the name, parse_filename returns the
\* longest regex candidate (upper-cased) whose leading letters are no noise
\* token, and none when no such candidate is left; REV2_ABC-2001.xlsx gives
\* ABC-2001.
C16_RegexFallback ==
    Called("parse_filename") /\ KnownIn(call.arg.name, call.arg.known) = {} =>
        LET cands == ValidCandidates(FindAll(call.arg.name, 1))
        IN /\ Ret = NoId <=> cands = <<>>
           /\ \A i \in 1..Len(cands) : Len(cands[i]) <= Len(Ret)
           /\ Ret # NoId =>
                  /\ Contains(Upper(call.arg.name), Ret)
                  /\ Shaped(Ret)
                  /\ ~IsNoise(Ret)
           /\ call.arg.name = <<"R", "E", "V", "2", "_", "A", "B", "C", "-", "2", "0", "0", "1", ".", "x", "l", "s", "x">>
                  => Ret = <<"A", "B", "C", "-", "2", "0", "0", "1">>

C16_Witness ==
    /\ Called("parse_filename")
    /\ call.arg.name = <<"R", "E", "V", "2", "_", "A", "B", "C", "-", "2", "0", "0", "1", ".", "x", "l", "s", "x">>
    /\ KnownIn(call.arg.name, call.arg.known) = {}
    /\ call.arg.known # <<>>
    /\ Ret = <<"A", "B", "C", "-", "2", "0", "0", "1">>

RECURSIVE CollapseRuns(_)
CollapseRuns(s) ==
    \* every run of spaces, tabs and newlines becomes one space
    IF s = <<>> THEN s
    ELSE IF IsSpace(s[1])
    THEN <<" ">> \o CollapseRuns(SubSeq(s, RunEnd(s, 1, IsSpace) + 1, Len(s)))
    ELSE <<s[1]>> \o CollapseRuns(Tail(s))

Canonical(s) ==
    \* lower case, surrounding whitespace removed, inner whitespace collapsed
    CollapseRuns(Strip(Lower(s)))

Resolved(config, text) ==
    \* the identifier of the last entry, the second group after the first,
    \* whose key is the text once both are canonical; "" when there is none
    LET entries == config.header_text_mappings \o config.shipping_list_header_map
        hits == {i \in 1..Len(entries) : Canonical(entries[i].key) = Canonical(text)}
    IN IF hits = {} THEN ""
       ELSE entries[CHOOSE i \in hits : \A j \in hits : j <= i].id

\* C18: at each place that consults the alias table (the header detector
\* and the column resolver of the services, the sheet verifier's header
\* pass) a lookup ignores the case, the surrounding whitespace and the
\* inner newlines and whitespace runs of both the stored key and the text
\* looked up, and of two groups defining one key the later one wins.
C18_AliasLookupNormalized ==
    call.fn # "" => Ret = Resolved(call.arg.config, call.arg.text)

SheetDiffers(item, row, cols) ==
    \* a number one of the record's three sheets holds differs from the
    \* master's number for the same field by 0.02 or more
    \E s \in SeqRange(sheet_names) : \E k \in cols :
        LET v == item.sheets[s].vals[k]
            m == row.exp[k]
        IN v >= 0 /\ m >= 0 /\ (v - m > 1 \/ m - v > 1)

\* C19: each sheet's value of a field is compared with the master on its
\* own: a record of which one sheet's value differs from the master by more
\* than the tolerance ends Mismatch, whatever the other sheets hold.
C19_EverySheetCompared ==
    (pc = "done" /\ Verified(df)) =>
        \A i \in 1..Len(final_results) :
            LET item == final_results[i]
                r == FirstRow(df.rows, item.invoice_id)
            IN (r # 0 /\ SheetDiffers(item, df.rows[r], df.cols))
               => item.status = "Mismatch"

RoleSheet(wb, role) ==
    \* the index of the sheet extracted for the role, 0 when there is none
    IF role = "Invoice" THEN find_invoice_sheet(wb)
    ELSE IF role = "Contract" THEN find_contract_sheet(wb)
    ELSE IF find_all_packing_list_sheets(wb) = <<>> THEN 0
    ELSE find_all_packing_list_sheets(wb)[1]

Supplies(wb, role, key) ==
    \* the total row of the role's sheet has a cell in a column of the field,
    \* or, for the pallet count, a text that names the pallets
    /\ RoleSheet(wb, role) # 0
    /\ wb.sheets[RoleSheet(wb, role)].total_row
    /\ \E c \in 1..Len(wb.sheets[RoleSheet(wb, role)].cells) :
           \/ wb.sheets[RoleSheet(wb, role)].cells[c].ctype = key
           \/ /\ key = "col_pallet_count"
              /\ wb.sheets[RoleSheet(wb, role)].cells[c].kind = "pallets"

\* C20: the report of a record the extractor produced lists a field under
\* a sheet role only if the sheet of that role supplied a value for the
\* field; a field it did not supply is not listed, and so never as 0.0.
C20_OnlySuppliedFieldsListed ==
    (pc = "done" /\ Verified(df)) =>
        \A i \in 1..Len(final_results) :
            \A n \in 1..Len(final_results[i].verification_details) :
                \A l \in 1..Len(final_results[i].verification_details[n]) :
                    LET line == final_results[i].verification_details[n][l]
                        wb == folder[matched[i].original_path].wb
                    IN line.kind = "row" => Supplies(wb, line.sheet, line.key)

ScenarioCase ==
    \* the workbook and the master row of the scenario, after the record
    \* was extracted and verified
    /\ Len(call.arg) = 10
    /\ \A r \in 1..8 : \A c \in 1..Len(call.arg[r]) : call.arg[r][c] = Plain(Blank)
    /\ At(call.arg, 9, 2) = TextCell(<<"Q", "u", "a", "n", "t", "i", "t", "y">>)
    /\ At(call.arg, 9, 3) = TextCell(<<"A", "m", "o", "u", "n", "t">>)
    /\ call.arg[10] = <<TextCell(<<"T", "o", "t", "a", "l", ":">>), SumCell(100), NumberCell(5005)>>
    /\ call.fn = "excel_data_extractor"
    /\ hist.calls >= 1
    /\ Len(df.rows) = 1
    /\ df.rows[1].id = final_results[1].invoice_id
    /\ df.rows[1].exp["col_qty_sf"] = 10000
    /\ df.rows[1].exp["col_amount"] = 500500

C21_MasterLoadFatal ==
    (master_path /\ ~masterFile.present) =>
        /\ matched = <<>>
        /\ final_results = <<>>

WasCompared(item, key) ==
    \* some sheet of the record holds a number other than zero for the key:
    \* the value the per-sheet loop compares with the master's
    \E s \in 1..Len(sheet_names) :
        item.sheets[sheet_names[s]].vals[key] \notin {Absent, None, NA, Text, 0}

Expected(table, r) ==
    \* the mapped fields the master row holds a number for
    {k \in table.cols : table.rows[r].exp[k] \notin {Absent, None, NA, Text}}

\* C22: a record has the status Verified, and its master row VERIFY STATE
\* true, only if for every field the master row holds an expectation for at
\* least one sheet supplied a value that was compared with it; a record of
\* a workbook that could not be opened is never Verified.
C22_VerifiedOnlyIfCompared ==
    (pc = "service" /\ hist.calls >= 1 /\ Verified(df)) =>
        \A i \in 1..Len(final_results) :
            LET item == final_results[i]
                r == FirstRow(df.rows, item.invoice_id)
            IN (item.status = "Verified" /\ r # 0) =>
                  \A k \in Expected(df, r) : WasCompared(item, k)

\* C23: a master row whose VERIFY STATE verify_and_update set to true
\* carries, for every mapped field, a DIFF value of at most 0.01 in absolute
\* value.
C23_VerifiedRowWithinTolerance ==
    (pc = "service" /\ hist.calls >= 1 /\ Verified(df)) =>
        \A r \in 1..Len(df.rows) :
            df.rows[r].verify = <<TRUE>> =>
                \A k \in df.cols :
                    /\ df.rows[r].diff[k] # <<>>
                    /\ df.rows[r].diff[k][1] <= 1
                    /\ df.rows[r].diff[k][1] >= -1

\* C24: when several records carry one identifier, the master row's VERIFY
\* STATE after verify_and_update is true only if every one of them is
\* Verified, whatever the order they were processed in.
C24_VerifyStateOfAllRecords ==
    (pc = "service" /\ hist.calls >= 1 /\ Verified(df)) =>
        \A i \in 1..Len(final_results) :
            LET r == FirstRow(df.rows, final_results[i].invoice_id)
            IN (final_results[i].invoice_id # NoId /\ r # 0
                /\ df.rows[r].verify = <<TRUE>>)
                   => final_results[i].status = "Verified"

Touched(rows, items, r) ==
    \* row r is the first row of its identifier and some record carries
    \* that identifier
    /\ \A q \in 1..(r - 1) : rows[q].id # rows[r].id
    /\ \E i \in 1..Len(items) :
           items[i].invoice_id # NoId /\ items[i].invoice_id = rows[r].id

Separated(text) ==
    \* the text with its thousands separators and currency symbols removed
    SelectSeq(text, LAMBDA c : c \notin {",", "$"})

IsAmountText(text) ==
    \* a currency symbol or none, then digits with thousands separators or
    \* none, then decimals or none, as in '$1,234.50'
    /\ text # <<>>
    /\ \A i \in 1..Len(text) : IsDigit(text[i]) \/ text[i] \in {",", "$", "."}
    /\ \A i \in 2..Len(text) : text[i] # "$"
    /\ IsDigit(text[Len(text)])
    /\ Cardinality({i \in 1..Len(text) : text[i] = "."}) <= 1
    /\ \A i \in 1..Len(text) : text[i] = "." =>
           \A j \in (i + 1)..Len(text) : IsDigit(text[j])

PlainValue(text) ==
    \* the number an amount text stands for, in hundredths
    LET s == Separated(text)
        p == IF \E i \in 1..Len(s) : s[i] = "."
             THEN CHOOSE i \in 1..Len(s) : s[i] = "." ELSE Len(s) + 1
    IN Hundredths(SubSeq(s, 1, p - 1), SubSeq(s, p + 1, Len(s)))

\* C26: every cleaner turns a text made of a currency symbol, digits with
\* thousands separators and decimals into the number it stands for
\* ('$1,234.50' gives 1234.50), never into the digits before the first
\* separator.
C26_CleansSeparators ==
    (call.fn \in {"regex_extract_number", "get_num", "_clean_number", "get_val"}
     /\ IsAmountText(call.arg)) =>
        /\ ~Ret.raised
        /\ Ret.v = PlainValue(call.arg)

Highest(S) == CHOOSE n \in S : \A m \in S : m <= n

Lowest(S) == CHOOSE n \in S : \A m \in S : n <= m

HeaderText(x) ==
    \* the text of a header cell in lower case, without the white space
    \* around it and with its line breaks turned into spaces
    LET s == Lower(StrOf(x))
        kept == {i \in 1..Len(s) : s[i] \notin {" ", "\n", "\t"}}
    IN IF kept = {} THEN <<>>
       ELSE [i \in 1..(Highest(kept) - Lowest(kept) + 1) |->
                IF s[Lowest(kept) + i - 1] = "\n" THEN " " ELSE s[Lowest(kept) + i - 1]]

AliasField(text) ==
    \* the fields the alias table gives for the text
    {mapping_dict_loaded[i].id :
        i \in {j \in 1..Len(mapping_dict_loaded) : mapping_dict_loaded[j].key = text}}

LegacyAmount(text) ==
    \/ Contains(text, <<"a", "m", "o", "u", "n", "t">>)
    \/ Contains(text, <<"t", "o", "t", "a", "l">>) /\ Contains(text, <<"v", "a", "l", "u", "e">>)

CellResolves(x) ==
    /\ Truthy(x)
    /\ AliasField(HeaderText(x)) # {} \/ LegacyAmount(HeaderText(x))

CellField(x) ==
    IF AliasField(HeaderText(x)) # {} THEN AliasField(HeaderText(x))
    ELSE {"col_amount"}

ResolvingAbove(grid, row_idx, col_idx) ==
    {r \in 1..(row_idx - 1) : CellResolves(grid[r][col_idx].v)}

\* C27: identify_column_type returns the field of the nearest cell above the
\* data row, in the same column, that resolves through the alias table or
\* else the legacy Amount fallback; a header farther up never overrides a
\* nearer one; the result is None exactly when no cell of the range
\* resolves.
C27_NearestHeaderWins ==
    Called("identify_column_type") =>
        LET above == ResolvingAbove(call.arg, Ret.row_idx, Ret.col_idx)
        IN IF above = {} THEN Ret.c_type = ""
           ELSE Ret.c_type \in CellField(call.arg[Highest(above)][Ret.col_idx].v)

C27_Witness ==
    /\ Called("identify_column_type")
    /\ Ret.col_idx = 1
    /\ Ret.row_idx = 4
    /\ call.arg[1][1] = TextCell(<<"Q", "u", "a", "n", "t", "i", "t", "y">>)
    /\ call.arg[2][1] = TextCell(<<"T", "o", "t", "a", "l", " ", "V", "a", "l", "u", "e", " ", "(", "U", "S", "D", ")">>)
    /\ call.arg[3][1] = TextCell(<<"C", "o", "w", " ", "L", "e", "a", "t", "h", "e", "r">>)
    /\ Ret.c_type = "col_amount"

\* C28: final_invoice_data.json as a run leaves it holds, for every record,
\* the status and the verification narrative of the results the run
\* returns.
C28_DumpMatchesResults ==
    pc = "done" =>
        /\ reports.json # <<>>
        /\ Len(reports.json[1]) = Len(final_results)
        /\ \A i \in 1..Len(final_results) :
              /\ reports.json[1][i].status = final_results[i].status
              /\ reports.json[1][i].verification_details
                     = final_results[i].verification_details

\* C29: when a run is over, missing_invoices.csv and rejection_report.csv
\* describe that run: they list its missing identifiers and its rejected
\* and failed-parse files, and hold nothing when the run has none.
C29_ReportsOfLatestRun ==
    pc = "done" =>
        /\ reports.missing = IF missing_ids # {} THEN <<missing_ids>> ELSE <<>>
        /\ reports.rejection = IF RejectionRows # <<>> THEN <<RejectionRows>>
                               ELSE <<>>

\* C30: every number stored under a sheet role of an extracted record was
\* read from the sheet of that role; the Invoice role's pallet count is
\* never the packing list's.
C30_RoleValuesFromRoleSheet ==
    \A i \in 1..Len(final_results) :
        LET wb == folder[matched[i].original_path].wb
        IN \A s \in 1..Len(sheet_names) : \A k \in Keys :
              final_results[i].sheets[sheet_names[s]].vals[k] > 0
                  => Supplies(wb, sheet_names[s], k)

====
